---- MODULE Spec2Model ----
(***************************************************************************)
(* Model of the alert manager (src/src/alert_system.py), of the adaptive   *)
(* threshold manager and the session memory (src/src/memory_system.py), of *)
(* the frame pipeline (src/src/deception_detection.py) with its drivers    *)
(* (src/src/main.py, src/src/web_app.py) and of the review session         *)
(* (src/src/review_mode.py).                                               *)
(*                                                                         *)
(* Units.  Times are integers in tenths of a second (1.2 s = 12).          *)
(* Confidences are integers in hundredths (0.6 = 60).  Thresholds are      *)
(* integers in units of 10^-5 (20.0 = 2000000); a product with 0.99 or 0.8 *)
(* is rounded to the nearest unit.                                         *)
(***************************************************************************)
EXTENDS Integers, Sequences, FiniteSets, TLC

VARIABLES
    heap,               \* AlertManager._heap: list of (-priority, timestamp, alert)
    recent,             \* AlertManager.recent: list of (t, kind)
    last_alert_time,    \* AlertManager.last_alert_time
    pattern_memory,     \* AlertManager.pattern_memory: deque(maxlen=15) of (now, key)
    now,                \* the wall clock read by AlertManager._now()
    nextId,             \* identity of the next Alert object constructed
    ret,                \* value returned by the last operation (None or an Alert)
    log,                \* one record per process() invocation, in call order
    enqueued,           \* identities of the Alerts handed to enqueue()
    dequeued,           \* Alerts returned by dequeue(), in order
    deqRun,             \* Alerts returned by dequeue() since the last enqueue()
    lastOp,             \* name of the last operation
    current_thresholds, \* AdaptiveThresholdManager.current_thresholds
    detection_history,  \* AdaptiveThresholdManager.detection_history
    successful_detections, \* AdaptiveThresholdManager.successful_detections
    records,            \* number of record_detection() calls made so far
    plan,               \* the detection repeated by a run of identical detections
    current_session,    \* MemorySystem.current_session (None or a SessionMemory)
    session_start_time, \* MemorySystem.session_start_time (0 for None: the code
                        \* only tests it for truth)
    sessionsStarted,    \* number of start_new_session() calls made so far
    sessionInputs,      \* arguments of the record_detection_event() calls of the
                        \* current session, in call order
    priorEvents,        \* number of record_detection_event() calls of confidence
                        \* >= 0.7 made before the current session started
    dd,                 \* the globals of the module deception_detection
    emothreads,         \* the get_mood threads that have not ended
    frames,             \* number of driver steps taken so far
    lastCall,           \* the last call of process_frame: its arguments, the
                        \* globals before it and what it did
    callerTtl,          \* the ttl_for_tells the driver passes to process_frame
    calibrated_flag,    \* the driver's own flag calibrated
    camera_active,      \* web_app.camera_active
    driver_start_time,  \* the driver's own calibration_start_time
    ticks,              \* number of steps of the calibration timers so far
    timers,             \* the calibration_timer threads that have not ended:
                        \* the position of each
    lastBaseline,       \* the last call of calculate_baseline: the globals
                        \* before it and what calculate_bpm found
    loops,              \* the threads of web_app that run generate_frames or
                        \* send_analysis_data: the position of each
    review_session,     \* the ReviewSession that is being recorded
    review_file,        \* the file ReviewSession.save wrote (None before)
    loaded_session,     \* the ReviewSession returned by ReviewSession.load
    reviewCalls         \* number of calls on a ReviewSession that read the clock

vars == <<heap, recent, last_alert_time, pattern_memory, now, nextId, ret, log,
          enqueued, dequeued, deqRun, lastOp,
          current_thresholds, detection_history, successful_detections, records,
          plan,
          current_session, session_start_time, sessionsStarted, sessionInputs,
          priorEvents,
          dd, emothreads, frames, lastCall, callerTtl,
          calibrated_flag, camera_active, driver_start_time, ticks, timers,
          lastBaseline, loops,
          review_session, review_file, loaded_session, reviewCalls>>

alertVars == <<heap, recent, last_alert_time, pattern_memory, now, nextId, ret, log,
               enqueued, dequeued, deqRun, lastOp>>

thrVars == <<current_thresholds, detection_history, successful_detections, records,
            plan>>

memVars == <<current_session, session_start_time, sessionsStarted, sessionInputs,
            priorEvents>>

frameVars == <<dd, emothreads, frames, lastCall, callerTtl>>

driverVars == <<calibrated_flag, camera_active, driver_start_time, ticks, timers,
                lastBaseline, loops>>

ddVars == <<frameVars, driverVars>>

reviewVars == <<review_session, review_file, loaded_session, reviewCalls>>

----------------------------------------------------------------------------
(* Bounds *)

MaxCalls == 3        \* process() invocations per behaviour
MaxQueue == 4        \* direct enqueue() calls per behaviour
MaxRecords == 3      \* record_detection() calls per behaviour (mixed inputs)
MaxRun == 25         \* record_detection() calls per run of identical detections
MaxSessions == 2     \* start_new_session() calls per behaviour
MaxEvents == 3       \* record_detection_event() calls between two session starts
MaxFrames == 3       \* process_frame calls made one by one by a driver
MaxTicks == 5        \* steps of the calibration timers of web_app
MaxTimers == 2       \* calibration timers of web_app alive at a time
MaxRuns == 1         \* runs of frames read by get_frame of web_app
MaxReviewCalls == 3  \* calls on a ReviewSession that read the clock
MaxBaselines == 2    \* calculate_baseline calls made one by one
MaxLoops == 2        \* threads of web_app inside a frame loop at a time
StartTime == 1000    \* the wall clock when the manager is constructed

----------------------------------------------------------------------------
(* Small helpers *)

None == [none |-> TRUE]

Min(a, b) == IF a < b THEN a ELSE b

Max(a, b) == IF a > b THEN a ELSE b

Range(s) == {s[i] : i \in 1..Len(s)}

RECURSIVE SumSet(_, _)
SumSet(S, f) ==
    IF S = {} THEN 0
    ELSE LET x == CHOOSE y \in S : TRUE IN f[x] + SumSet(S \ {x}, f)

\* [e for e in s if e.t >= cutoff]
RECURSIVE Since(_, _)
Since(s, cutoff) ==
    IF s = <<>> THEN <<>>
    ELSE (IF Head(s).t >= cutoff THEN <<Head(s)>> ELSE <<>>) \o Since(Tail(s), cutoff)

----------------------------------------------------------------------------
(* Indicator kinds *)

Kinds == {"avg_bpms", "blinking", "bpm_change", "gaze", "hand", "lips", "other"}

\* Python orders str values lexicographically; the rank gives that order.
KindRank ==
    [k \in Kinds |->
        CASE k = "avg_bpms" -> 1
          [] k = "blinking" -> 2
          [] k = "bpm_change" -> 3
          [] k = "gaze" -> 4
          [] k = "hand" -> 5
          [] k = "lips" -> 6
          [] k = "other" -> 7]

\* self.WEIGHTS.get(k, 5)
WEIGHTS ==
    [k \in Kinds |->
        CASE k = "bpm_change" -> 30
          [] k = "hand" -> 20
          [] k = "blinking" -> 15
          [] k = "lips" -> 15
          [] k = "gaze" -> 10
          [] k = "avg_bpms" -> 5
          [] OTHER -> 5]

CLUSTER_WINDOW == 30

LOOKBACK == 100

CONFIDENCE_BASE == 20

CONFIDENCE_PER_INDICATOR == 25

ALERT_CONFIDENCE_THRESHOLD == 60

ALERT_COOLDOWN == 12

PATTERN_WINDOW == 30

PATTERN_MEMORY_MAXLEN == 15

\* sorted(indicators): insertion of one element into a sorted sequence
RECURSIVE InsertKind(_, _)
InsertKind(k, s) ==
    IF s = <<>> THEN <<k>>
    ELSE IF KindRank[k] < KindRank[Head(s)] THEN <<k>> \o s
    ELSE <<Head(s)>> \o InsertKind(k, Tail(s))

RECURSIVE SortKinds(_)
SortKinds(s) ==
    IF s = <<>> THEN <<>> ELSE InsertKind(Head(s), SortKinds(Tail(s)))

RECURSIVE SetToSortedSeq(_)
SetToSortedSeq(S) ==
    IF S = {} THEN <<>>
    ELSE LET x == CHOOSE y \in S : \A z \in S : KindRank[y] <= KindRank[z]
         IN <<x>> \o SetToSortedSeq(S \ {x})

----------------------------------------------------------------------------
(* The priority queue: heapq on tuples (-priority, timestamp, alert) *)

\* Alert.__lt__ of the order=True dataclass: only `priority` is compared.
AlertLess(a, b) == a.priority < b.priority

\* tuple.__lt__ on (-priority, timestamp, alert)
EntryLess(a, b) ==
    \/ a.np < b.np
    \/ a.np = b.np /\ a.ts < b.ts
    \/ a.np = b.np /\ a.ts = b.ts /\ AlertLess(a.alert, b.alert)

\* heapq._siftdown(heap, 0, pos) with 1-based positions
RECURSIVE SiftDown(_, _, _)
SiftDown(h, pos, item) ==
    IF pos > 1 /\ EntryLess(item, h[pos \div 2])
    THEN SiftDown([h EXCEPT ![pos] = h[pos \div 2]], pos \div 2, item)
    ELSE [h EXCEPT ![pos] = item]

\* A push that appends and never restores the heap order
HeapPushNoSift(h, item) == Append(h, item)

HeapPush(h, item) == SiftDown(Append(h, item), Len(h) + 1, item)

\* heapq._siftup(heap, pos): move the smaller child up to a leaf, then sift down
RECURSIVE SiftUp(_, _, _)
SiftUp(h, pos, item) ==
    LET left == 2 * pos
        right == 2 * pos + 1
        child == IF right <= Len(h) /\ ~EntryLess(h[left], h[right])
                 THEN right ELSE left
    IN  IF left <= Len(h)
        THEN SiftUp([h EXCEPT ![pos] = h[child]], child, item)
        ELSE SiftDown(h, pos, item)

\* heapq.heappop: the pair <<returned item, remaining heap>>
HeapPop(h) ==
    LET last == h[Len(h)]
        rest == SubSeq(h, 1, Len(h) - 1)
    IN  IF rest = <<>> THEN <<last, rest>>
        ELSE <<rest[1], SiftUp(rest, 1, last)>>

Entry(alert) == [np |-> 0 - alert.priority, ts |-> alert.timestamp, alert |-> alert]

\* An enqueue that keeps only the alerts that reach the confidence threshold
EnqueueAboveThresholdOnly(h, alert) ==
    IF alert.confidence >= 60 THEN HeapPush(h, Entry(alert)) ELSE h

EnqueueOp(h, alert) == HeapPush(h, Entry(alert))

\* sorted(self._heap, reverse=True): stable, so equal entries keep heap order
RECURSIVE InsertDesc(_, _)
InsertDesc(e, s) ==
    IF s = <<>> THEN <<e>>
    ELSE IF EntryLess(Head(s), e) THEN <<e>> \o s
    ELSE <<Head(s)>> \o InsertDesc(e, Tail(s))

RECURSIVE SortedReverse(_)
SortedReverse(h) ==
    IF h = <<>> THEN <<>>
    ELSE InsertDesc(h[Len(h)], SortedReverse(SubSeq(h, 1, Len(h) - 1)))

GetPending(h, limit) ==
    LET s == SortedReverse(h)
    IN  [i \in 1..Min(limit, Len(s)) |-> s[i].alert]

----------------------------------------------------------------------------
(* AlertManager.reduce_false_positive *)

\* deque(maxlen=15).append
DequeAppend(dq, x) ==
    IF Len(dq) >= PATTERN_MEMORY_MAXLEN THEN Append(Tail(dq), x) ELSE Append(dq, x)

\* sum(1 for t, k in pattern_memory if k == key and now - t < 3)
Repeated(pm, key, n) ==
    Cardinality({i \in 1..Len(pm) : pm[i].key = key /\ n - pm[i].t < PATTERN_WINDOW})

\* A filter without the cooldown test
ReduceFalsePositiveNoCooldown(indicators, n, last, pm) ==
    LET key == SortKinds(indicators)
        pm1 == DequeAppend(pm, [t |-> n, key |-> key])
    IN  IF Repeated(pm1, key, n) < 2 /\ Len(indicators) < 2
        THEN [ok |-> FALSE, last_alert_time |-> last, pattern_memory |-> pm1]
        ELSE [ok |-> TRUE, last_alert_time |-> n, pattern_memory |-> pm1]

\* The outcome of reduce_false_positive(indicators) when _now() reads n:
\* the returned flag and the new last_alert_time and pattern_memory.
ReduceFalsePositive(indicators, n, last, pm) ==
    LET key == SortKinds(indicators)
        pm1 == DequeAppend(pm, [t |-> n, key |-> key])
    IN  IF n - last < ALERT_COOLDOWN
        THEN [ok |-> FALSE, last_alert_time |-> last, pattern_memory |-> pm]
        ELSE IF Repeated(pm1, key, n) < 2 /\ Len(indicators) < 2
        THEN [ok |-> FALSE, last_alert_time |-> last, pattern_memory |-> pm1]
        ELSE [ok |-> TRUE, last_alert_time |-> n, pattern_memory |-> pm1]

----------------------------------------------------------------------------
(* AlertManager.process *)

\* self.recent after the append loop and the prune
RecentAfter(rec, keys, ts) ==
    LET added == rec \o [i \in 1..Len(keys) |-> [t |-> ts, k |-> keys[i]]]
    IN  Since(added, ts - LOOKBACK)

\* cluster = [k for (t, k) in self.recent if t >= ts - CLUSTER_WINDOW]
Cluster(rec, ts) ==
    LET sel == Since(rec, ts - CLUSTER_WINDOW)
    IN  [i \in 1..Len(sel) |-> sel[i].k]

\* A score that adds a weight for every entry of the cluster, repeated or not
RECURSIVE ScorePerEntry(_, _)
ScorePerEntry(cluster, stress_level) ==
    IF cluster = <<>> THEN stress_level * 10
    ELSE WEIGHTS[Head(cluster)] + ScorePerEntry(Tail(cluster), stress_level)

\* score: the weights of set(cluster) plus stress_level * 10
Score(cluster, stress_level) == SumSet(Range(cluster), WEIGHTS) + stress_level * 10

\* A confidence that counts len(cluster) instead of len(set(cluster))
ConfidencePerEntry(cluster) ==
    Min(100, CONFIDENCE_BASE + Len(cluster) * CONFIDENCE_PER_INDICATOR)

\* min(1.0, CONFIDENCE_BASE + len(set(cluster)) * CONFIDENCE_PER_INDICATOR)
Confidence(cluster) ==
    Min(100, CONFIDENCE_BASE + Cardinality(Range(cluster)) * CONFIDENCE_PER_INDICATOR)

\* The Alert built by process
BuildAlert(id, cluster, stress_level, ts) ==
    [id |-> id, priority |-> Score(cluster, stress_level), timestamp |-> ts,
     indicators |-> cluster, confidence |-> Confidence(cluster)]

\* A return decision that ignores the filter's verdict
ReturnedUnfiltered(confidence, ok) == confidence >= ALERT_CONFIDENCE_THRESHOLD

\* Whether process hands its Alert to the caller, given the filter's verdict
Returned(confidence, ok) == confidence >= ALERT_CONFIDENCE_THRESHOLD /\ ok

\* Inputs of process: the keys of the tell map in insertion order, the stress
\* level, and whether the caller passes the time of a frame captured LOOKBACK
\* ago as timestamp or no timestamp at all
Inputs ==
    { [keys |-> <<>>, stress |-> 0, stale |-> FALSE],
      [keys |-> <<"bpm_change">>, stress |-> 1, stale |-> FALSE],
      [keys |-> <<"bpm_change", "hand">>, stress |-> 2, stale |-> FALSE],
      [keys |-> <<"bpm_change", "hand">>, stress |-> 2, stale |-> TRUE],
      [keys |-> <<"bpm_change", "hand", "lips">>, stress |-> 3, stale |-> FALSE],
      [keys |-> <<"avg_bpms", "gaze", "blinking", "other">>, stress |-> 0,
       stale |-> FALSE] }

\* Time that passes on the wall clock before a call
Steps == {5, 12, 30}

\* The timestamp argument of a call made when the clock reads n
TsArg(inp, n) ==
    IF inp.stale THEN [given |-> TRUE, value |-> n - LOOKBACK]
    ELSE [given |-> FALSE, value |-> 0]

\* ts = timestamp or self._now()
Timestamp(tsArg, n) == IF ~tsArg.given \/ tsArg.value = 0 THEN n ELSE tsArg.value

\* A threshold that the confidence of any Alert reaches
AboveBase(confidence) == confidence >= CONFIDENCE_BASE

\* if confidence >= self.ALERT_CONFIDENCE_THRESHOLD
AboveThreshold(confidence) == confidence >= ALERT_CONFIDENCE_THRESHOLD

\* process(indicators, stress_level, timestamp) called when the clock reads n
ProcessOp(keys, stress, tsArg, n) ==
    LET ts == Timestamp(tsArg, n)
        rec1 == RecentAfter(recent, keys, ts)
        cluster == Cluster(rec1, ts)
        alert == BuildAlert(nextId, cluster, stress, ts)
        above == AboveThreshold(alert.confidence)
        f == ReduceFalsePositive(SetToSortedSeq(Range(cluster)), n,
                                 last_alert_time, pattern_memory)
        call == [keys |-> keys, stress |-> stress, ts |-> ts,
                 now |-> n, last |-> last_alert_time]
    IN  /\ now' = n
        /\ UNCHANGED <<enqueued, dequeued, deqRun>>
        /\ IF keys = <<>>
           THEN /\ ret' = None
                /\ log' = Append(log, call @@ [built |-> FALSE, alert |-> None,
                                               filter |-> "skipped"])
                /\ UNCHANGED <<heap, recent, last_alert_time, pattern_memory,
                               nextId>>
           ELSE /\ recent' = rec1
                /\ heap' = EnqueueOp(heap, alert)
                /\ nextId' = nextId + 1
                /\ last_alert_time' = IF above THEN f.last_alert_time
                                      ELSE last_alert_time
                /\ pattern_memory' = IF above THEN f.pattern_memory
                                     ELSE pattern_memory
                /\ ret' = IF Returned(alert.confidence, above /\ f.ok)
                          THEN alert ELSE None
                /\ log' = Append(log, call @@
                             [built |-> TRUE, alert |-> alert,
                              filter |-> IF ~above THEN "skipped"
                                         ELSE IF f.ok THEN "accept"
                                         ELSE "reject"])

ProcessCall ==
    \E d \in Steps, inp \in Inputs :
        /\ Len(log) < MaxCalls
        /\ ProcessOp(inp.keys, inp.stress, TsArg(inp, now + d), now + d)
        /\ lastOp' = "process"
        /\ UNCHANGED <<thrVars, memVars, ddVars, reviewVars>>

----------------------------------------------------------------------------
(* AlertManager.enqueue / dequeue called directly *)

Priorities == {10, 50, 100}

EnqueueTimes == {1, 2}

EnqueueCall ==
    \E p \in Priorities, t \in EnqueueTimes :
        /\ Cardinality(enqueued) < MaxQueue
        /\ LET alert == [id |-> nextId, priority |-> p, timestamp |-> t,
                         indicators |-> <<>>, confidence |-> 0]
           IN  /\ heap' = EnqueueOp(heap, alert)
               /\ enqueued' = enqueued \cup {alert.id}
        /\ nextId' = nextId + 1
        /\ deqRun' = <<>>
        /\ ret' = None
        /\ lastOp' = "enqueue"
        /\ UNCHANGED <<recent, last_alert_time, pattern_memory, now, log, dequeued>>
        /\ UNCHANGED <<thrVars, memVars, ddVars, reviewVars>>

DequeueCall ==
    /\ IF heap = <<>>
       THEN /\ ret' = None
            /\ lastOp' = "dequeue_empty"
            /\ UNCHANGED <<heap, dequeued, deqRun>>
       ELSE /\ ret' = HeapPop(heap)[1].alert
            /\ heap' = HeapPop(heap)[2]
            /\ dequeued' = Append(dequeued, HeapPop(heap)[1].alert)
            /\ deqRun' = Append(deqRun, HeapPop(heap)[1].alert)
            /\ lastOp' = "dequeue"
    /\ UNCHANGED <<recent, last_alert_time, pattern_memory, now, nextId, log, enqueued>>
    /\ UNCHANGED <<thrVars, memVars, ddVars, reviewVars>>

----------------------------------------------------------------------------
(* AdaptiveThresholdManager *)

ThresholdKeys == {"bpm_change", "blink_rate", "gaze_stability",
                  "hand_face_frequency", "lip_compression", "emotion_change"}

\* self.default_thresholds, in units of 10^-5
default_thresholds ==
    [k \in ThresholdKeys |->
        CASE k = "bpm_change" -> 3000000
          [] k = "blink_rate" -> 4000000
          [] k = "gaze_stability" -> 5000000
          [] k = "hand_face_frequency" -> 2000000
          [] k = "lip_compression" -> 3000000
          [] k = "emotion_change" -> 60000]

\* confidence_memory_window * 60 seconds, in tenths of a second
CONFIDENCE_MEMORY_WINDOW == 6000

\* the confidence from which a detection counts as successful (0.7)
HIGH_CONFIDENCE == 70

\* indicator_mapping.get(indicator, indicator)
IndicatorMapping(indicator) ==
    CASE indicator = "hand" -> "hand_face_frequency"
      [] indicator = "bpm_change" -> "bpm_change"
      [] indicator = "blinking" -> "blink_rate"
      [] indicator = "gaze" -> "gaze_stability"
      [] indicator = "lips" -> "lip_compression"
      [] OTHER -> indicator

\* A decay of 2% instead of 1% per detection
ScaleBy98(value, percent) == (value * 98 + 50) \div 100

\* value * factor for a factor of percent/100 (0.99 in every call of the code)
Scale(value, percent) == (value * percent + 50) \div 100

\* default_thresholds[key] * self.min_threshold_ratio (0.8)
MinValue(key) == (default_thresholds[key] * 8) \div 10

\* A primary update without the floor
AdaptIndicatorNoFloor(thr, indicator) ==
    LET key == IndicatorMapping(indicator)
    IN  IF key \in DOMAIN thr
        THEN [thr EXCEPT ![key] = Scale(thr[key], 99)]
        ELSE thr

\* One iteration of the loop of _adapt_thresholds
AdaptIndicator(thr, indicator) ==
    LET key == IndicatorMapping(indicator)
    IN  IF key \in DOMAIN thr
        THEN [thr EXCEPT ![key] = Max(Scale(thr[key], 99), MinValue(key))]
        ELSE thr

\* _adjust_correlated_threshold(threshold_key, factor)
AdjustCorrelatedThreshold(thr, key, percent) ==
    IF key \in DOMAIN thr
    THEN [thr EXCEPT ![key] = Max(Scale(thr[key], percent), MinValue(key))]
    ELSE thr

RECURSIVE AdaptLoop(_, _)
AdaptLoop(thr, indicators) ==
    IF indicators = <<>> THEN thr
    ELSE AdaptLoop(AdaptIndicator(thr, Head(indicators)), Tail(indicators))

\* _adapt_thresholds(detected_indicators)
AdaptThresholds(thr, indicators) ==
    LET t1 == AdaptLoop(thr, indicators)
        t2 == IF "bpm_change" \in Range(indicators)
              THEN AdjustCorrelatedThreshold(t1, "blink_rate", 99) ELSE t1
    IN  IF "hand" \in Range(indicators)
        THEN AdjustCorrelatedThreshold(t2, "gaze_stability", 99) ELSE t2

\* self.detection_history after the append and the prune
HistoryAfter(hist, event) ==
    LET all == Append(hist, event)
        kept == {i \in 1..Len(all) :
                    all[i].timestamp > event.timestamp - CONFIDENCE_MEMORY_WINDOW}
        Pos(n) == CHOOSE i \in kept : Cardinality({j \in kept : j < i}) = n - 1
    IN  [n \in 1..Cardinality(kept) |-> all[Pos(n)]]

\* record_detection(indicators, confidence, timestamp)
RecordDetection(indicators, confidence, timestamp) ==
    /\ detection_history' =
          HistoryAfter(detection_history,
                       [timestamp |-> timestamp, indicators |-> indicators,
                        confidence |-> confidence,
                        thresholds_at_time |-> current_thresholds])
    /\ IF confidence >= HIGH_CONFIDENCE
       THEN /\ successful_detections' = successful_detections + 1
            /\ current_thresholds' = AdaptThresholds(current_thresholds, indicators)
       ELSE UNCHANGED <<successful_detections, current_thresholds>>
    /\ records' = records + 1

\* The indicator lists recorded: the list of an Alert is its cluster, in which
\* a kind is repeated once per process() call of the clustering window
RecordInputs ==
    { <<"hand">>,
      <<"bpm_change", "gaze", "blinking">>,
      <<"hand", "hand", "hand", "hand", "hand", "hand", "hand", "hand">>,
      <<"avg_bpms", "lips", "emotion_change">> }

Confidences == {45, 70, 100}

\* Time between two detections: 1 s, or the whole memory window
RecordSteps == {10, 6000}

RecordCall ==
    \E inds \in RecordInputs, conf \in Confidences, d \in RecordSteps :
        /\ records < MaxRecords
        /\ now' = now + d
        /\ RecordDetection(inds, conf, now + d)
        /\ lastOp' = "record_detection"
        /\ UNCHANGED <<ddVars, reviewVars, heap, recent, last_alert_time, pattern_memory, nextId, ret,
                     log,
                       enqueued, dequeued, deqRun, plan, memVars>>

\* The detections a run repeats
Plans ==
    [inds : {<<"hand">>, <<"bpm_change">>, <<"gaze", "hand">>, <<"lips", "lips">>},
     conf : Confidences]

\* One more detection of a run of identical detections, 1 s after the last
RepeatCall ==
    /\ records < MaxRun
    /\ now' = now + 10
    /\ RecordDetection(plan.inds, plan.conf, now + 10)
    /\ lastOp' = "record_detection"
    /\ UNCHANGED <<ddVars, reviewVars, heap, recent, last_alert_time, pattern_memory, nextId, ret,
                     log,
                   enqueued, dequeued, deqRun, plan, memVars>>

----------------------------------------------------------------------------
(* web_app.send_analysis_data, interrogation phase: the tell map of a frame *)
(* goes to process(), and a returned Alert to record_detection()            *)

\* Keys of the tell maps handed over, in the order process_frame inserts them
AnalysisTells ==
    { <<"avg_bpms">>,
      <<"avg_bpms", "bpm_change">>,
      <<"avg_bpms", "hand", "lips">> }

\* Time between two passes of the loop: the sleep of 0.5 s, or more
AnalysisSteps == {5, 12}

SendAnalysisData ==
    \E d \in AnalysisSteps, keys \in AnalysisTells :
        /\ Len(log) < MaxCalls
        /\ ProcessOp(keys, 0, [given |-> TRUE, value |-> now + d], now + d)
        /\ lastOp' = "send_analysis_data"
        /\ IF ret' # None
           THEN RecordDetection(ret'.indicators, ret'.confidence, ret'.timestamp)
           ELSE UNCHANGED <<current_thresholds, detection_history,
                            successful_detections, records>>
        /\ UNCHANGED <<plan, memVars, ddVars, reviewVars>>

----------------------------------------------------------------------------
(* MemorySystem: sessions *)

\* The manager AdaptiveThresholdManager() constructs
FreshManager ==
    [current_thresholds |-> default_thresholds,
     detection_history |-> <<>>,
     successful_detections |-> 0]

\* The SessionMemory start_new_session constructs around the manager m; the
\* session id and the ISO timestamp, which only name the session, are left out
FreshSession(m) ==
    [baseline_metrics |-> <<>>,
     detection_events |-> <<>>,
     deception_count |-> 0,
     confidence_scores |-> <<>>,
     behavioral_patterns |->
         [escalation_detected |-> FALSE, common_indicator_pairs |-> <<>>,
          burst_count |-> 0],
     adaptive_thresholds |-> m.current_thresholds]

\* A start_new_session that goes on with the manager of the session before
StartNewSessionKeepManager ==
    /\ sessionsStarted < MaxSessions
    /\ now' = now + 10
    /\ UNCHANGED <<current_thresholds, detection_history, successful_detections>>
    /\ current_session' =
          FreshSession([current_thresholds |-> current_thresholds])
    /\ session_start_time' = now + 10
    /\ sessionsStarted' = sessionsStarted + 1
    /\ priorEvents' = priorEvents + Cardinality({i \in 1..Len(sessionInputs) :
                          sessionInputs[i].confidence >= HIGH_CONFIDENCE})
    /\ sessionInputs' = <<>>
    /\ lastOp' = "start_new_session"
    /\ UNCHANGED <<ddVars, reviewVars, heap, recent, last_alert_time, pattern_memory, nextId, ret,
                     log,
                   enqueued, dequeued, deqRun, records, plan>>

\* start_new_session(), called with no baseline metrics 1 s after the last call
StartNewSession ==
    /\ sessionsStarted < MaxSessions
    /\ now' = now + 10
    /\ current_thresholds' = FreshManager.current_thresholds
    /\ detection_history' = FreshManager.detection_history
    /\ successful_detections' = FreshManager.successful_detections
    /\ current_session' = FreshSession(FreshManager)
    /\ session_start_time' = now + 10
    /\ sessionsStarted' = sessionsStarted + 1
    /\ priorEvents' = priorEvents + Cardinality({i \in 1..Len(sessionInputs) :
                          sessionInputs[i].confidence >= HIGH_CONFIDENCE})
    /\ sessionInputs' = <<>>
    /\ lastOp' = "start_new_session"
    /\ UNCHANGED <<ddVars, reviewVars, heap, recent, last_alert_time, pattern_memory, nextId, ret,
                     log,
                   enqueued, dequeued, deqRun, records, plan>>

\* Twice the numerator of the least-squares slope of ys over 0..Len(ys)-1
RECURSIVE SlopeNum(_, _)
SlopeNum(ys, i) ==
    IF i > Len(ys) THEN 0
    ELSE (2 * (i - 1) - (Len(ys) - 1)) * ys[i] + SlopeNum(ys, i + 1)

\* np.polyfit(range(len(confidences)), confidences, 1)[0] > 0.1, for the
\* confidences (hundredths) of the last five events when there are three or more
Escalation(events) ==
    LET k == Min(5, Len(events))
        ys == [i \in 1..k |-> events[Len(events) - k + i].confidence]
    IN  k >= 3 /\ 3 * SlopeNum(ys, 1) > 5 * k * (k * k - 1)

\* The keys tuple(sorted([ind1, ind2])) of one event, one per pair of positions
PairsOf(indicators) ==
    [q \in {r \in (1..Len(indicators)) \X (1..Len(indicators)) : r[1] < r[2]} |->
        SortKinds(<<indicators[q[1]], indicators[q[2]]>>)]

\* indicator_pairs: how often each key occurs over all events of the session
IndicatorPairs(events) ==
    LET occ == {<<e, q>> \in (1..Len(events)) \X ((1..4) \X (1..4)) :
                    q \in DOMAIN PairsOf(events[e].indicators)}
        keys == {PairsOf(events[o[1]].indicators)[o[2]] : o \in occ}
    IN  [key \in keys |->
            Cardinality({o \in occ : PairsOf(events[o[1]].indicators)[o[2]] = key})]

\* The number of intervals between consecutive events shorter than 30 s
ShortIntervals(events) ==
    Cardinality({i \in 1..(Len(events) - 1) :
                    events[i + 1].session_time - events[i].session_time < 300})

\* _analyze_behavioral_patterns(): the entries the patterns are made of (the
\* entries derived from them, such as the strongest pair, are left out)
AnalyzeBehavioralPatterns(session) ==
    LET events == session.detection_events
        old == session.behavioral_patterns
    IN  IF Len(events) < 2 THEN session
        ELSE [session EXCEPT !.behavioral_patterns =
                [escalation_detected |->
                     old.escalation_detected \/ Escalation(events),
                 common_indicator_pairs |->
                     IF DOMAIN IndicatorPairs(events) = {}
                     THEN old.common_indicator_pairs
                     ELSE IndicatorPairs(events),
                 burst_count |->
                     IF Len(events) >= 3 /\ ShortIntervals(events) >= 2
                     THEN ShortIntervals(events) ELSE old.burst_count]]

\* The arguments of record_detection_event: the indicator list, the confidence,
\* and whether the time of a frame captured 0.5 s before the call is passed as
\* timestamp, or no timestamp
EventInputs ==
    { [indicators |-> <<"hand">>, confidence |-> 45, given |-> FALSE],
      [indicators |-> <<"hand">>, confidence |-> 100, given |-> FALSE],
      [indicators |-> <<"bpm_change", "hand", "bpm_change">>, confidence |-> 70,
       given |-> TRUE] }

\* An event of any confidence counted as a deception
CountsEveryEvent(confidence) == TRUE

\* record_detection_event, line 240: if confidence >= 0.7
CountsAsDeception(confidence) == confidence >= HIGH_CONFIDENCE

\* record_detection_event(indicators, confidence, None, timestamp), called 1 s
\* after the last call; with no session the threshold manager is updated and
\* the append to the session raises AttributeError
RecordDetectionEvent ==
    \E inp \in EventInputs :
        /\ Len(sessionInputs) < MaxEvents
        /\ LET n == now + 10
               inds == inp.indicators
               conf == inp.confidence
               timestamp == IF current_session = None \/ ~inp.given THEN n
                            ELSE n - 5
               event == [timestamp |-> timestamp,
                         session_time |-> IF session_start_time # 0
                                          THEN timestamp - session_start_time
                                          ELSE 0,
                         indicators |-> inds,
                         confidence |-> conf,
                         adaptive_thresholds_snapshot |-> current_thresholds']
           IN  /\ now' = n
               /\ RecordDetection(inds, conf, timestamp)
               /\ sessionInputs' =
                     Append(sessionInputs, [indicators |-> inds, confidence |-> conf,
                                            timestamp |-> timestamp])
               /\ IF current_session = None
                  THEN /\ lastOp' = "record_detection_event_raised"
                       /\ UNCHANGED current_session
                  ELSE /\ lastOp' = "record_detection_event"
                       /\ current_session' =
                             AnalyzeBehavioralPatterns(
                               [current_session EXCEPT
                                  !.detection_events = Append(@, event),
                                  !.confidence_scores = Append(@, conf),
                                  !.deception_count =
                                      IF CountsAsDeception(conf) THEN @ + 1 ELSE @])
        /\ UNCHANGED <<ddVars, reviewVars, heap, recent, last_alert_time, pattern_memory, nextId, ret,
                     log,
                       enqueued, dequeued, deqRun, plan, session_start_time,
                       sessionsStarted, priorEvents>>

----------------------------------------------------------------------------
(* deception_detection: the module's globals, calibration and the baseline. *)
(* BPM values are integers, the baseline bpm is in hundredths, gaze values   *)
(* are in tenths and lip ratios in hundredths.  A rate per second is a       *)
(* fraction [num, den].                                                      *)

MAX_FRAMES == 120

\* MAX_HISTORY = MAX_FRAMES * 10
MAX_HISTORY == MAX_FRAMES * 10

\* the samples get_bpm_change_value needs before it computes a BPM
MIN_HR_VALUES == 60

\* the valid BPM readings calculate_baseline needs
MIN_VALID_BPMS == 10

\* the gaze samples calculate_baseline needs
MIN_VALID_GAZES == 50

\* calculate_bpm(..., min_bpm=50, max_bpm=150)
MIN_BPM == 50

MAX_BPM == 150

\* LIP_COMPRESSION_RATIO = .35
LIP_COMPRESSION_RATIO == 35

\* process_frame(..., ttl_for_tells=20)
DEFAULT_TTL == 20

\* the number of frames with a face between two mood classifications
MOOD_EVERY == 5

\* the call counters on which each kind is sampled
BPM_EVERY == 30

BLINK_EVERY == 60

HAND_EVERY == 90

GAZE_LIPS_EVERY == 15

\* detection_tells of process_frame
DetectionTells == {"bpm_change", "blinking", "hand", "gaze", "lips"}

EmptyMap == [k \in {} |-> 0]

\* m[k] = v on a dict
Put(m, k, v) == [x \in DOMAIN m \cup {k} |-> IF x = k THEN v ELSE m[x]]

\* [x] * n
Repeat(x, n) == [i \in 1..n |-> x]

\* w[1:] + [x]
Shift(w, x) == Append(Tail(w), x)

\* sum(s), computed half by half
RECURSIVE SumSeq(_)
SumSeq(s) ==
    IF s = <<>> THEN 0
    ELSE IF Len(s) = 1 THEN s[1]
    ELSE SumSeq(SubSeq(s, 1, Len(s) \div 2))
             + SumSeq(SubSeq(s, Len(s) \div 2 + 1, Len(s)))

\* sum(s) of a list of booleans
CountTrue(s) == Cardinality({i \in 1..Len(s) : s[i]})

Abs(x) == IF x < 0 THEN 0 - x ELSE x

\* floor(a * thr / 10^7) for a threshold thr in units of 10^-5: a times the
\* threshold taken as a percentage
PercentOf(a, thr) ==
    (a * (thr \div 10000) + (a * (thr % 10000)) \div 10000) \div 1000

\* Counter(s).most_common(1)[0][0]: the most frequent element, the one met
\* first among equally frequent ones
MostCommon(s) ==
    LET cnt(x) == Cardinality({i \in 1..Len(s) : s[i] = x})
        first(x) == CHOOSE i \in 1..Len(s) : s[i] = x /\ \A j \in 1..(i - 1) : s[j] # x
    IN  CHOOSE x \in Range(s) :
            \A y \in Range(s) :
                cnt(x) > cnt(y) \/ (cnt(x) = cnt(y) /\ first(x) <= first(y))

\* A tell that stays for twice ttl_for_tells calls
new_tell_twice(result, ttl_for_tells) == [text |-> result, ttl |-> 2 * ttl_for_tells]

\* new_tell(result, ttl_for_tells); the text is cut down to what tells the
\* displays apart
new_tell(result, ttl_for_tells) == [text |-> result, ttl |-> ttl_for_tells]

\* A decrement that keeps a tell whose ttl has reached 0
DecrementTellsKeepExpired(tells) ==
    [k \in DOMAIN tells |-> [tells[k] EXCEPT !.ttl = @ - 1]]

\* decrement_tells(tells)
decrement_tells(tells) ==
    [k \in {x \in DOMAIN tells : tells[x].ttl - 1 > 0} |->
        [tells[k] EXCEPT !.ttl = @ - 1]]

\* The dict start_calibration builds (complete) or reset_baseline builds (the
\* keys lip_values and hand_states are missing; the model keeps the fields,
\* empty, and the flag tells that the keys are missing)
CalibrationData(start_time, complete) ==
    [bpm_values |-> <<>>, blink_states |-> <<>>, blink_events |-> <<>>,
     gaze_values |-> <<>>, lip_values |-> <<>>, emotion_history |-> <<>>,
     hand_states |-> <<>>, hand_contact_events |-> <<>>,
     start_time |-> start_time, complete |-> complete]

\* The baseline dict of the module and of reset_baseline
DefaultBaseline ==
    [bpm |-> 0,
     blink_rate |-> [num |-> 0, den |-> 1],
     gaze_stability |-> [num |-> 0, den |-> 1],
     lip_ratio |-> 0,
     emotion |-> "neutral",
     hand_face_frequency |-> [num |-> 0, den |-> 1],
     calibrated |-> FALSE,
     samples_count |-> 0,
     calibration_duration |-> 0]

\* The globals of deception_detection when the module has been imported
ImportState ==
    [tells |-> EmptyMap,
     baseline |-> DefaultBaseline,
     calibration_start_time |-> None,
     calibration_data |-> CalibrationData(None, TRUE),
     frame_counter |-> 0,
     hr_values |-> 0,
     avg_bpms |-> Repeat(0, MAX_FRAMES),
     blinks |-> Repeat(FALSE, MAX_FRAMES),
     hand_on_face |-> Repeat(FALSE, MAX_FRAMES),
     gaze_values |-> Repeat(0, MAX_FRAMES),
     calculating_mood |-> FALSE,
     mood |-> "",
     mood_history |-> <<>>,
     mood_frames_count |-> 0]

\* start_calibration() when the clock reads t
start_calibration(st, t) ==
    [st EXCEPT !.calibration_start_time = [at |-> t],
               !.calibration_data = CalibrationData([at |-> t], TRUE)]

\* reset_baseline()
reset_baseline(st) ==
    [st EXCEPT !.baseline = DefaultBaseline,
               !.calibration_data = CalibrationData(None, FALSE),
               !.calibration_start_time = None]

\* The variance of a list of gaze values (tenths), as the fraction whose
\* square root np.std returns
Variance(xs) ==
    LET n == Len(xs)
        sq == [i \in 1..n |-> xs[i] * xs[i]]
    IN  [num |-> n * SumSeq(sq) - SumSeq(xs) * SumSeq(xs), den |-> n * n * 100]

\* A single valid BPM reading is taken for enough
EnoughBpmsOne(valid_bpms) == Len(valid_bpms) >= 1

\* len(valid_bpms) >= 10
EnoughBpms(valid_bpms) == Len(valid_bpms) >= MIN_VALID_BPMS

\* [bpm for bpm in avg_bpms if bpm > 0 and 50 <= bpm <= 150]
ValidBpms(avg_bpms) ==
    SelectSeq(avg_bpms, LAMBDA b : b > 0 /\ MIN_BPM <= b /\ b <= MAX_BPM)

\* The mean of a non-empty list of BPM values, in hundredths
MeanBpm(bpms) == (SumSeq(bpms) * 100 + Len(bpms) \div 2) \div Len(bpms)

\* calculate_baseline(); calculated is what calculate_bpm returns on the last
\* 60 samples of hr_values (0 for None).  Returns the new globals and the
\* function's result: every key the function reads without a test is in the
\* dict of the module, of start_calibration and of reset_baseline, so nothing
\* raises and the result is True
calculate_baseline(st, calculated) ==
    LET cd == st.calibration_data
        valid_bpms == ValidBpms(st.avg_bpms)
        bpm == IF EnoughBpms(valid_bpms)
               THEN MeanBpm(valid_bpms)
               ELSE IF /\ st.hr_values >= MIN_HR_VALUES
                       /\ calculated # 0
                       /\ MIN_BPM <= calculated /\ calculated <= MAX_BPM
               THEN calculated * 100
               ELSE st.baseline.bpm
        collected == Len(cd.blink_events)
        PerSecond(events) == IF collected > 0
                             THEN [num |-> 30 * events, den |-> collected]
                             ELSE [num |-> 0, den |-> 1]
        valid_gazes == SelectSeq(cd.gaze_values, LAMBDA g : g # 0)
    IN  [st |-> [st EXCEPT !.baseline =
                    [bpm |-> bpm,
                     blink_rate |-> PerSecond(CountTrue(cd.blink_events)),
                     gaze_stability |->
                         IF Len(valid_gazes) >= MIN_VALID_GAZES
                         THEN Variance(valid_gazes)
                         ELSE [num |-> 1, den |-> 100],
                     lip_ratio |-> st.baseline.lip_ratio,
                     emotion |-> IF cd.emotion_history # <<>>
                                 THEN MostCommon(cd.emotion_history)
                                 ELSE "neutral",
                     hand_face_frequency |->
                         PerSecond(CountTrue(cd.hand_contact_events)),
                     calibrated |-> TRUE,
                     samples_count |-> Len(cd.blink_states),
                     calibration_duration |-> st.baseline.calibration_duration]],
         ok |-> TRUE]

\* get_blink_tell(blinks, baseline_blink_rate) is not None: the blinks of the
\* last 30 frames differ from the baseline rate by more than half of it
get_blink_tell(blinks, rate) ==
    LET recent_blinks == CountTrue(SubSeq(blinks, Len(blinks) - 29, Len(blinks)))
    IN  /\ rate.num > 0
        /\ 2 * Abs(recent_blinks * rate.den - rate.num) > rate.num

\* count_hand_transitions(hand_states)
count_hand_transitions(hand_states) ==
    Cardinality({i \in 2..Len(hand_states) : ~hand_states[i - 1] /\ hand_states[i]})

\* detect_gaze_change(avg_gaze) on the window that already holds avg_gaze:
\* the matches out of MAX_FRAMES when they are under one percent, else 0
detect_gaze_change(gaze_values, avg_gaze) ==
    LET matches == Cardinality({i \in 1..Len(gaze_values) : gaze_values[i] = avg_gaze})
    IN  IF matches * 100 < MAX_FRAMES THEN matches ELSE 0

\* What process_frame appends to calibration_data on a calibration frame with a
\* face
Collect(cd, inp, bpm, mood) ==
    LET Event(states, cur) == states # <<>> /\ ~states[Len(states)] /\ cur
    IN  [cd EXCEPT
            !.bpm_values = IF bpm # 0 /\ MIN_BPM <= bpm /\ bpm <= MAX_BPM
                           THEN Append(@, bpm) ELSE @,
            !.blink_states = Append(@, inp.blinking),
            !.blink_events = Append(@, Event(cd.blink_states, inp.blinking)),
            !.gaze_values = IF inp.gaze # 0 THEN Append(@, inp.gaze) ELSE @,
            !.lip_values = IF inp.lip > 0 THEN Append(@, inp.lip) ELSE @,
            !.emotion_history =
                IF mood # "" /\ (@ = <<>> \/ @[Len(@)] # mood)
                THEN Append(@, mood) ELSE @,
            !.hand_states = Append(@, inp.hand),
            !.hand_contact_events = Append(@, Event(cd.hand_states, inp.hand))]

\* tells.get('avg_bpms', {'text': 'BPM: Initializing...', 'ttl': ttl_for_tells})
AvgBpmsOrDefault(tells, ttl_for_tells) ==
    IF "avg_bpms" \in DOMAIN tells
    THEN tells["avg_bpms"]
    ELSE new_tell("BPM: Initializing...", ttl_for_tells)

\* The value of a set of one element; binds a value that is used many times
Only(S) == CHOOSE x \in S : TRUE

\* A tell is created although one of its kind is live
Unguarded(tells, kind) == TRUE

\* if 'bpm_change' not in tells, if 'blinking' not in tells, if 'hand' not in
\* tells: the guard under which these three kinds are created
Guarded(tells, kind) == kind \notin DOMAIN tells

\* The bpm_change condition without the test of the baseline bpm
BpmConditionAnyBaseline(bpm, baseline_bpm, counter, thr) ==
    /\ bpm # 0
    /\ counter % BPM_EVERY = 0
    /\ Abs(bpm * 100 - baseline_bpm) > PercentOf(baseline_bpm, thr)

\* bpm and baseline['bpm'] > 0 and frame_counter % 30 == 0 and
\* bpm_delta > baseline_bpm * (adaptive_threshold_pct / 100.0)
BpmCondition(bpm, baseline_bpm, counter, thr) ==
    /\ bpm # 0
    /\ baseline_bpm > 0
    /\ counter % BPM_EVERY = 0
    /\ Abs(bpm * 100 - baseline_bpm) > PercentOf(baseline_bpm, thr)

\* baseline['calibrated'] and frame_counter % 60 == 0 and recent_blink_tell and
\* abs(current_blink_rate - baseline_blink_rate)
\*     > baseline_blink_rate * adaptive_threshold_pct,
\* current_blink_rate being the blinks of the last 30 frames times 60
BlinkCondition(blinks, baseline, counter, thr) ==
    LET rate == baseline.blink_rate
        recent_blinks == CountTrue(SubSeq(blinks, Len(blinks) - 29, Len(blinks)))
    IN  /\ baseline.calibrated
        /\ counter % BLINK_EVERY = 0
        /\ get_blink_tell(blinks, rate)
        /\ Abs(60 * recent_blinks * rate.den - rate.num) > PercentOf(rate.num, thr)

\* recent_hand_on_face and baseline['calibrated'] and frame_counter % 90 == 0
\* and current_rate > baseline_rate * adaptive_multiplier, current_rate being
\* the contacts of the window of 120 frames over its 4 seconds
HandCondition(hand_on_face, recent_hand_on_face, baseline, counter, thr) ==
    LET rate == baseline.hand_face_frequency
    IN  /\ recent_hand_on_face
        /\ baseline.calibrated
        /\ counter % HAND_EVERY = 0
        /\ count_hand_transitions(hand_on_face) * rate.den
               > PercentOf(4 * rate.num, thr)

\* frame_counter % 15 == 0 and gaze_change and gaze_change > 0.08
GazeCondition(gaze_values, avg_gaze, counter) ==
    LET gaze_change == detect_gaze_change(gaze_values, avg_gaze)
    IN  /\ counter % GAZE_LIPS_EVERY = 0
        /\ gaze_change # 0
        /\ gaze_change * 100 > 8 * MAX_FRAMES

\* The lips condition tested on every frame
LipsConditionEveryFrame(lip_ratio, counter) ==
    lip_ratio < LIP_COMPRESSION_RATIO

\* frame_counter % 15 == 0 and lip_ratio < LIP_COMPRESSION_RATIO
LipsCondition(lip_ratio, counter) ==
    /\ counter % GAZE_LIPS_EVERY = 0
    /\ lip_ratio < LIP_COMPRESSION_RATIO

\* A frame taken to show a face whatever the landmarks
HasFaceAlways(inp) == TRUE

\* if face_landmarks: whether the frame is processed as one that shows a face
HasFace(inp) == inp.face

\* The tells a calibration frame keeps when nothing is discarded
KeepTells(tells, ttl_for_tells) ==
    Put(tells, "avg_bpms", AvgBpmsOrDefault(tells, ttl_for_tells))

\* tells = {'avg_bpms': tells.get('avg_bpms', ...)}
ClearTells(tells, ttl_for_tells) ==
    [k \in {"avg_bpms"} |-> AvgBpmsOrDefault(tells, ttl_for_tells)]

\* process_frame(image, face_landmarks, hands_landmarks, calibrated, fps,
\* ttl_for_tells) on the globals st when the clock reads t and the adaptive
\* thresholds are thr.  inp is what the image shows: whether a face is found,
\* the BPM calculate_bpm finds once there are samples enough (0 for None),
\* is_blinking, check_hand_on_face, get_avg_gaze and get_lip_ratio.  Returns
\* the new globals, the returned map, whether a get_mood thread was started,
\* is_calibrating, the kinds whose tell was assigned and the kinds whose
\* detection condition held.  The assignments to tells are independent of one
\* another, kind by kind, and are made at once
process_frame(st, inp, calibrated, ttl_for_tells, thr, t) ==
    LET counter == st.frame_counter + 1
        s1 == IF st.calibration_start_time = None /\ ~st.baseline.calibrated
              THEN start_calibration(st, t) ELSE st
        baseline == st.baseline
        is_calibrating == ~calibrated \/ ~baseline.calibrated
        tells1 == IF ~is_calibrating
                  THEN decrement_tells(st.tells)
                  ELSE ClearTells(st.tells, ttl_for_tells)
        face == HasFace(inp)
        started == face /\ ~st.calculating_mood
                        /\ st.mood_frames_count + 1 >= MOOD_EVERY
        hr_values == IF face THEN Min(st.hr_values + 1, MAX_HISTORY)
                     ELSE st.hr_values
        bpm == IF face /\ hr_values >= MIN_HR_VALUES THEN inp.bpm ELSE 0
        detecting == face /\ ~is_calibrating
        blinks == IF detecting THEN Shift(st.blinks, inp.blinking) ELSE st.blinks
        hand_on_face == IF detecting THEN Shift(st.hand_on_face, inp.hand)
                        ELSE st.hand_on_face
        gaze_values == IF detecting THEN Shift(st.gaze_values, inp.gaze)
                       ELSE st.gaze_values
        held == IF ~detecting THEN {}
                ELSE {k \in DetectionTells :
                        \/ k = "bpm_change" /\ BpmCondition(bpm, baseline.bpm, counter,
                                                           thr["bpm_change"])
                        \/ k = "blinking" /\ BlinkCondition(blinks, baseline, counter,
                                                           thr["blink_rate"])
                        \/ k = "hand" /\ HandCondition(hand_on_face, inp.hand, baseline,
                                                       counter, thr["hand_face_frequency"])
                        \/ k = "gaze" /\ GazeCondition(gaze_values, inp.gaze, counter)
                        \/ k = "lips" /\ LipsCondition(inp.lip, counter)}
        assigned == {k \in held : k \in {"gaze", "lips"} \/ Guarded(tells1, k)}
                        \cup (IF face THEN {"avg_bpms"} ELSE {})
        tells == [k \in DOMAIN tells1 \cup assigned |->
                     IF k = "avg_bpms" /\ face THEN new_tell("BPM", ttl_for_tells)
                     ELSE IF k \in assigned THEN new_tell(k, ttl_for_tells)
                     ELSE tells1[k]]
    IN  [st |-> [s1 EXCEPT
                    !.tells = tells,
                    !.frame_counter = counter,
                    !.calculating_mood = @ \/ started,
                    !.mood_frames_count = IF ~face THEN @
                                          ELSE IF started THEN 0 ELSE @ + 1,
                    !.hr_values = hr_values,
                    !.avg_bpms = IF bpm # 0 THEN Shift(@, bpm) ELSE @,
                    !.calibration_data =
                        IF face /\ is_calibrating /\ s1.calibration_start_time # None
                        THEN Collect(@, inp, bpm, st.mood)
                        ELSE @,
                    !.blinks = blinks,
                    !.hand_on_face = hand_on_face,
                    !.gaze_values = gaze_values],
         ret |-> IF is_calibrating
                 THEN ClearTells(tells, ttl_for_tells)
                 ELSE [k \in DOMAIN tells \cap ({"avg_bpms"} \cup DetectionTells)
                          |-> tells[k]],
         started |-> started,
         is_calibrating |-> is_calibrating,
         assigned |-> assigned,
         held |-> held]

\* The results of emotion_detector.top_emotion the model draws from, the score
\* in hundredths; the last one is (None, None), no face found
MoodOutcomes ==
    { [detected |-> "neutral", score |-> 80],
      [detected |-> "fear", score |-> 80],
      [detected |-> "neutral", score |-> 40],
      [detected |-> "", score |-> 0] }

\* mood_history.append(detected_mood); mood_history = mood_history[-6:]
AppendMood(history, detected) ==
    LET h == Append(history, detected)
    IN  IF Len(h) > 6 THEN SubSeq(h, Len(h) - 5, Len(h)) ELSE h

\* The body of get_mood after top_emotion has returned and calculating_mood
\* has been cleared: the updates of mood_history and mood.  returned tells
\* whether the function returns from inside the update, without reaching the
\* second calculating_mood = False
get_mood_update(st, outcome) ==
    LET h == AppendMood(st.mood_history, outcome.detected)
        most_common_mood == MostCommon(h)
        count == Cardinality({i \in 1..Len(h) : h[i] = most_common_mood})
    IN  IF outcome.score > 50
        THEN IF Len(h) >= 3 /\ 2 * count >= Len(h)
             THEN [st |-> [st EXCEPT !.mood_history = h, !.mood = most_common_mood],
                   returned |-> TRUE]
             ELSE [st |-> [st EXCEPT !.mood_history = h], returned |-> FALSE]
        ELSE IF outcome.detected = "neutral" /\ outcome.score > 35
        THEN IF Len(h) >= 2 /\ 2 * count >= Len(h) /\ most_common_mood = "neutral"
             THEN [st |-> [st EXCEPT !.mood_history = h, !.mood = "neutral"],
                   returned |-> TRUE]
             ELSE [st |-> [st EXCEPT !.mood_history = h], returned |-> FALSE]
        ELSE [st |-> st, returned |-> FALSE]

\* get_mood(image) run from its start to its end with nothing in between
get_mood(st, outcome) ==
    [get_mood_update([st EXCEPT !.calculating_mood = FALSE], outcome).st
        EXCEPT !.calculating_mood = FALSE]

\* What the camera shows on a frame
NoFace ==
    [face |-> FALSE, bpm |-> 0, blinking |-> FALSE, hand |-> FALSE,
     gaze |-> 0, lip |-> 0]

CalmFrame ==
    [face |-> TRUE, bpm |-> 75, blinking |-> FALSE, hand |-> FALSE,
     gaze |-> 1, lip |-> 45]

StressedFrame ==
    [face |-> TRUE, bpm |-> 110, blinking |-> TRUE, hand |-> TRUE,
     gaze |-> 3, lip |-> 30]

FrameInputs == {NoFace, CalmFrame, StressedFrame}

\* The frames and flags the drivers of the model call process_frame with
FrameCalls ==
    { [inp |-> NoFace, calibrated |-> TRUE],
      [inp |-> CalmFrame, calibrated |-> TRUE],
      [inp |-> StressedFrame, calibrated |-> TRUE],
      [inp |-> StressedFrame, calibrated |-> FALSE],
      [inp |-> NoFace, calibrated |-> FALSE] }

\* The frame the camera shows on call c of a run: a calm subject blinks on
\* every 30th frame and touches the face on every 60th
InputAt(schedule, c) ==
    CASE schedule = "noface" -> NoFace
      [] schedule = "stressed" -> StressedFrame
      [] OTHER -> [CalmFrame EXCEPT !.blinking = (c % 30 = 0),
                                    !.hand = (c % 60 = 0)]

\* A get_mood thread that has been started and is inside top_emotion
NewThread == [pc |-> "top_emotion", outcome |-> None]

\* One iteration of a driver loop in a run that ends with call last: a
\* process_frame call and the get_mood thread it starts.  The thread
\* classifies a neutral face and ends before the next frame, but for a thread
\* started in the last MOOD_EVERY - 1 frames of the run, which is still
\* inside top_emotion when the run ends
RunStep(w, schedule, calibrated, ttl_for_tells, last) ==
    LET c == w.st.frame_counter + 1
    IN  Only({ LET ends == r.started /\ c + MOOD_EVERY <= last
               IN  [st |-> IF ends
                           THEN get_mood(r.st, [detected |-> "neutral", score |-> 80])
                           ELSE r.st,
                    threads |-> IF r.started /\ ~ends
                                THEN Append(w.threads, NewThread)
                                ELSE w.threads]
               : r \in {process_frame(w.st, InputAt(schedule, c), calibrated,
                                      ttl_for_tells, default_thresholds, StartTime)} })

\* The driver loop calling process_frame until the call counter reaches upto,
\* in a run that ends with call last.  The run is computed half by half
RECURSIVE RunUpTo(_, _, _, _, _, _)
RunUpTo(w, schedule, calibrated, ttl_for_tells, upto, last) ==
    LET n == upto - w.st.frame_counter
    IN  IF n <= 0 THEN w
        ELSE IF n = 1 THEN RunStep(w, schedule, calibrated, ttl_for_tells, last)
        ELSE Only({ RunUpTo(half, schedule, calibrated, ttl_for_tells, upto, last)
                    : half \in {RunUpTo(w, schedule, calibrated, ttl_for_tells,
                                        w.st.frame_counter + n \div 2, last)} })

\* The driver loop calling process_frame until the call counter reaches last
Run(w, schedule, calibrated, ttl_for_tells, last) ==
    Only({ RunUpTo(v, schedule, calibrated, ttl_for_tells, last, last) : v \in {w} })

\* The module imported and no frame processed
Imported == [st |-> ImportState, threads |-> <<>>]

\* The get_mood threads of w classify a neutral face and end, one by one
RECURSIVE Settled(_)
Settled(w) ==
    Only({ IF v.threads = <<>> THEN v
           ELSE Settled([st |-> get_mood(v.st, [detected |-> "neutral", score |-> 80]),
                         threads |-> Tail(v.threads)])
           : v \in {w} })

\* A calibration run of n frames of a calm subject, closed by
\* calculate_baseline
Calibrated(n, ttl_for_tells) ==
    Only({ [w EXCEPT !.st = calculate_baseline(w.st, 0).st]
           : w \in {Run(Imported, "calm", FALSE, ttl_for_tells, n)} })

\* ttl_for_tells of a caller that keeps tells on the display for longer than
\* any sampling period
LONG_TTL == 100

\* The states the frames of the model start from, each with the ttl_for_tells
\* the caller passes:
\*   the module just imported;
\*   a baseline calculated from 58 frames, too few for a BPM;
\*   a baseline calculated from 178 frames, a get_mood thread still running;
\*   88 frames of a stressed subject after a baseline, tells kept for long;
\*   18 frames without a face after a baseline;
\*   a frame of a stressed subject and 18 of a calm one after a baseline
Scenarios ==
    { [w |-> Imported, ttl |-> DEFAULT_TTL],
      [w |-> Settled(Calibrated(58, DEFAULT_TTL)), ttl |-> DEFAULT_TTL],
      [w |-> Calibrated(178, DEFAULT_TTL), ttl |-> DEFAULT_TTL],
      [w |-> Settled(Run(Calibrated(89, LONG_TTL), "stressed", TRUE, LONG_TTL, 178)),
       ttl |-> LONG_TTL],
      [w |-> Settled(Run(Calibrated(89, DEFAULT_TTL), "noface", TRUE, DEFAULT_TTL, 107)),
       ttl |-> DEFAULT_TTL],
      [w |-> Settled(Run(Run(Calibrated(89, DEFAULT_TTL), "stressed", TRUE,
                             DEFAULT_TTL, 90),
                         "calm", TRUE, DEFAULT_TTL, 108)),
       ttl |-> DEFAULT_TTL] }

\* What calculate_bpm finds when calculate_baseline falls back on hr_values
CalculatedBpms == {0, 75}

\* The states calculate_baseline is called in, all of them in a calibration
\* that began with nothing in the window avg_bpms:
\*   the module just imported;
\*   58 frames of a calm subject: fewer than 60 heart-rate samples;
\*   25 frames without a face and 63 of a calm subject: 60 heart-rate samples
\*   or more and 4 BPM readings;
\*   89 frames of a calm subject: 30 BPM readings;
\*   100 frames of a calm subject and 130 of a stressed one: more BPM
\*   readings than the window holds
BaselineScenarios ==
    { Imported,
      Settled(Run(Imported, "calm", FALSE, DEFAULT_TTL, 58)),
      Settled(Run(Run(Imported, "noface", FALSE, DEFAULT_TTL, 25),
                  "calm", FALSE, DEFAULT_TTL, 88)),
      Settled(Run(Imported, "calm", FALSE, DEFAULT_TTL, 89)),
      Settled(Run(Run(Imported, "calm", FALSE, DEFAULT_TTL, 100),
                  "stressed", FALSE, DEFAULT_TTL, 230)) }

\* One call of calculate_baseline by a driver
CalculateBaselineCall ==
    /\ lastBaseline.n < MaxBaselines
    /\ \E calculated \in CalculatedBpms :
           \E r \in {calculate_baseline(dd, calculated)} :
               /\ dd' = r.st
               /\ lastBaseline' = [n |-> lastBaseline.n + 1, before |-> dd,
                                   calculated |-> calculated]
    /\ UNCHANGED <<emothreads, frames, lastCall, callerTtl>>
    /\ UNCHANGED <<calibrated_flag, camera_active, driver_start_time, ticks, timers,
                   loops>>
    /\ UNCHANGED <<alertVars, thrVars, memVars, reviewVars>>

\* One call of process_frame by a driver
ProcessFrameCall ==
    \E call \in FrameCalls :
        \E r \in {process_frame(dd, call.inp, call.calibrated, callerTtl,
                                current_thresholds, now)} :
            /\ frames < MaxFrames
            /\ dd' = r.st
            /\ emothreads' = IF r.started THEN Append(emothreads, NewThread)
                             ELSE emothreads
            /\ frames' = frames + 1
            /\ lastCall' = [n |-> r.st.frame_counter, inp |-> call.inp,
                            calibrated |-> call.calibrated, before |-> dd,
                            running |-> Len(emothreads), ret |-> r.ret,
                            started |-> r.started,
                            is_calibrating |-> r.is_calibrating,
                            assigned |-> r.assigned, held |-> r.held]
            /\ UNCHANGED <<callerTtl, driverVars>>
            /\ UNCHANGED <<alertVars, thrVars, memVars, reviewVars>>

\* seq without its i-th element
Without(seq, i) == SubSeq(seq, 1, i - 1) \o SubSeq(seq, i + 1, Len(seq))

\* get_mood, lines 524-525: top_emotion returns and calculating_mood is cleared
MoodDetected ==
    \E i \in 1..Len(emothreads), outcome \in MoodOutcomes :
        /\ emothreads[i].pc = "top_emotion"
        /\ dd' = [dd EXCEPT !.calculating_mood = FALSE]
        /\ emothreads' = [emothreads EXCEPT ![i] = [pc |-> "update", outcome |-> outcome]]
        /\ UNCHANGED <<frames, lastCall, callerTtl, driverVars>>
        /\ UNCHANGED <<alertVars, thrVars, memVars, reviewVars>>

\* get_mood, lines 527-562: the updates of mood_history and mood
MoodUpdate ==
    \E i \in 1..Len(emothreads) :
        /\ emothreads[i].pc = "update"
        /\ LET u == get_mood_update(dd, emothreads[i].outcome)
           IN  /\ dd' = u.st
               /\ emothreads' = IF u.returned
                                THEN Without(emothreads, i)
                                ELSE [emothreads EXCEPT ![i].pc = "reset"]
        /\ UNCHANGED <<frames, lastCall, callerTtl, driverVars>>
        /\ UNCHANGED <<alertVars, thrVars, memVars, reviewVars>>

\* get_mood, line 564: calculating_mood = False on the way out
MoodReset ==
    \E i \in 1..Len(emothreads) :
        /\ emothreads[i].pc = "reset"
        /\ dd' = [dd EXCEPT !.calculating_mood = FALSE]
        /\ emothreads' = Without(emothreads, i)
        /\ UNCHANGED <<frames, lastCall, callerTtl, driverVars>>
        /\ UNCHANGED <<alertVars, thrVars, memVars, reviewVars>>

----------------------------------------------------------------------------
(* main.play_webcam: the loop that calls process_frame and keeps its own *)
(* calibration flag and timer                                             *)

\* CALIBRATION_TIME = 20 seconds, in tenths of a second
MAIN_CALIBRATION_TIME == 200

\* The time one iteration of the loop takes, in tenths of a second: a short
\* one, and one as long as the calibration
LoopSteps == {1, MAIN_CALIBRATION_TIME}

\* get_stress_level(tells_count, bpm_change)[2]
get_stress_level(tells_count, bpm_change) ==
    LET actual_tells == Max(0, tells_count - 1)
        severity_score ==
            Min(100, actual_tells * 15
                        + (IF Abs(bpm_change) > 20 THEN 30
                           ELSE IF Abs(bpm_change) > 15 THEN 20
                           ELSE IF Abs(bpm_change) > 10 THEN 10
                           ELSE 0))
    IN  IF severity_score < 30 THEN 1
        ELSE IF severity_score < 60 THEN 2
        ELSE 3

\* The order in which process_frame puts the keys into the map it returns
TellOrder == <<"avg_bpms", "bpm_change", "blinking", "hand", "gaze", "lips">>

\* The keys of a returned map, in insertion order
KeysOf(m) == SelectSeq(TellOrder, LAMBDA k : k \in DOMAIN m)

\* One iteration of the loop of play_webcam with a frame read: process_frame
\* with the loop's flag, then the timer while the flag is off or the alert
\* manager while it is on, then the key pressed ("c" toggles the flag)
PlayWebcamLoop ==
    \E inp \in FrameInputs, d \in LoopSteps, key \in {"", "c"} :
        \E r \in {process_frame(dd, inp, calibrated_flag, DEFAULT_TTL,
                                current_thresholds, now + d)} :
            LET elapsed_time == (now + d) - driver_start_time
                timed == calibrated_flag \/ elapsed_time >= MAIN_CALIBRATION_TIME
                toggled == IF key = "c" THEN ~timed ELSE timed
                last_bpm == r.st.avg_bpms[MAX_FRAMES]
                bpm_change == IF last_bpm > 0 THEN last_bpm - r.st.avg_bpms[1]
                              ELSE 0
            IN  /\ frames < MaxFrames
                /\ dd' = r.st
                /\ emothreads' = IF r.started THEN Append(emothreads, NewThread)
                                 ELSE emothreads
                /\ frames' = frames + 1
                /\ lastCall' = [n |-> r.st.frame_counter, inp |-> inp,
                                calibrated |-> calibrated_flag, before |-> dd,
                                running |-> Len(emothreads), ret |-> r.ret,
                                started |-> r.started,
                                is_calibrating |-> r.is_calibrating,
                                assigned |-> r.assigned, held |-> r.held,
                                elapsed |-> elapsed_time]
                /\ calibrated_flag' = toggled
                /\ driver_start_time' = IF key = "c" /\ ~toggled THEN now + d
                                        ELSE driver_start_time
                /\ IF calibrated_flag
                   THEN /\ ProcessOp(KeysOf(r.ret),
                                     get_stress_level(Cardinality(DOMAIN r.ret),
                                                      bpm_change),
                                     [given |-> FALSE, value |-> 0], now + d)
                        /\ lastOp' = "process_indicators"
                   ELSE /\ now' = now + d
                        /\ UNCHANGED <<heap, recent, last_alert_time, pattern_memory,
                                       nextId, ret, log, enqueued, dequeued, deqRun,
                                       lastOp>>
                /\ UNCHANGED <<callerTtl, camera_active, ticks, timers, lastBaseline,
                               loops>>
                /\ UNCHANGED <<thrVars, memVars, reviewVars>>

----------------------------------------------------------------------------
(* web_app: the camera handlers, VideoCamera.get_frame and the calibration *)
(* timer threads                                                           *)

\* CALIBRATION_TIME = 60 seconds, in tenths of a second
WEB_CALIBRATION_TIME == 600

\* The time a timer that has found time remaining is away from the test of
\* its loop, in tenths of a second: its sleeps of half a second until the
\* calibration time is up, taken as one
TimerSleeps == {WEB_CALIBRATION_TIME}

\* How many frames in a row get_frame reads with the same subject in view
FrameRuns == {1, 70}

\* What the camera shows during a run of frames
WebSchedules == {"calm", "noface"}

\* A thread that has begun generate_frames or send_analysis_data and is at
\* the test of its loop
NewLoop(kind) == [kind |-> kind, pc |-> "while", seen |-> None]

\* handle_start_camera() while the camera is off: the globals of
\* deception_detection are reset, the flags set and a send_analysis_data
\* thread and a calibration_timer thread are started.  The frames
\* send_analysis_data reads are those of GetFrame
StartCamera ==
    /\ ~camera_active
    /\ Len(timers) < MaxTimers
    /\ Len(loops) < MaxLoops
    /\ dd' = [reset_baseline(dd) EXCEPT !.hr_values = 0,
                                        !.avg_bpms = Repeat(0, MAX_FRAMES),
                                        !.mood = "",
                                        !.mood_history = <<>>,
                                        !.mood_frames_count = 0,
                                        !.calculating_mood = FALSE]
    /\ camera_active' = TRUE
    /\ calibrated_flag' = FALSE
    /\ driver_start_time' = now
    /\ timers' = Append(timers, "while")
    /\ loops' = Append(loops, NewLoop("send_analysis_data"))
    /\ UNCHANGED <<emothreads, frames, lastCall, callerTtl, ticks, lastBaseline>>
    /\ UNCHANGED <<alertVars, thrVars, memVars, reviewVars>>

\* handle_stop_camera() while the camera is on
StopCamera ==
    /\ camera_active
    /\ camera_active' = FALSE
    /\ UNCHANGED <<frameVars, calibrated_flag, driver_start_time, ticks, timers,
                   lastBaseline, loops>>
    /\ UNCHANGED <<alertVars, thrVars, memVars, reviewVars>>

\* VideoCamera.get_frame() called by a loop of generate_frames or
\* send_analysis_data, for a run of frames that are read: process_frame with
\* the flag calibrated of web_app.  The get_mood threads of the run end before
\* anything else happens, and the clock is read as it was when the run began
GetFrame ==
    /\ camera_active
    /\ frames < MaxRuns
    /\ \E n \in FrameRuns, schedule \in WebSchedules :
           \E w \in {Settled(Run([st |-> dd, threads |-> emothreads], schedule,
                                 calibrated_flag, DEFAULT_TTL,
                                 dd.frame_counter + n))} :
               LET starts == /\ dd.calibration_start_time = None
                             /\ ~dd.baseline.calibrated
               IN  /\ dd' = IF starts
                            THEN [w.st EXCEPT
                                     !.calibration_start_time = [at |-> now],
                                     !.calibration_data.start_time = [at |-> now]]
                            ELSE w.st
                   /\ emothreads' = w.threads
    /\ frames' = frames + 1
    /\ UNCHANGED <<lastCall, callerTtl, driverVars>>
    /\ UNCHANGED <<alertVars, thrVars, memVars, reviewVars>>

\* calibration_timer, lines 367-382 and 413: the test of the loop and of the
\* time that remains; the thread ends, finds the calibration time up, or
\* sleeps and comes back to the test
TimerWhile ==
    \E i \in 1..Len(timers), d \in TimerSleeps :
        /\ timers[i] = "while"
        /\ ticks < MaxTicks
        /\ ticks' = ticks + 1
        /\ IF ~(camera_active /\ ~calibrated_flag)
           THEN timers' = Without(timers, i) /\ now' = now
           ELSE IF now - driver_start_time >= WEB_CALIBRATION_TIME
           THEN timers' = [timers EXCEPT ![i] = "due"] /\ now' = now
           ELSE timers' = timers /\ now' = now + d
        /\ UNCHANGED <<frameVars, calibrated_flag, camera_active, driver_start_time,
                       lastBaseline, loops>>
        /\ UNCHANGED <<heap, recent, last_alert_time, pattern_memory,
                       nextId, ret, log, enqueued, dequeued, deqRun, lastOp>>
        /\ UNCHANGED <<thrVars, memVars, reviewVars>>

\* calibration_timer, lines 383-413, when the calibration time is up:
\* calculate_baseline, then the flag is set and the thread ends, or the timer
\* starts again.  No session of the memory system is open in web_app and
\* save_session, called with an argument it does not take, raises inside the
\* try: the memory system is left alone
TimerDue ==
    \E i \in 1..Len(timers) :
        /\ timers[i] = "due"
        /\ ticks < MaxTicks
        /\ ticks' = ticks + 1
        /\ \E d \in TimerSleeps, calculated \in CalculatedBpms :
               \E r \in {calculate_baseline(dd, calculated)} :
                   /\ dd' = r.st
                   /\ lastBaseline' = [n |-> lastBaseline.n + 1, before |-> dd,
                                       calculated |-> calculated]
                   /\ IF r.ok
                      THEN /\ calibrated_flag' = TRUE
                           /\ timers' = Without(timers, i)
                           /\ UNCHANGED <<now, driver_start_time>>
                      ELSE /\ driver_start_time' = now
                           /\ timers' = [timers EXCEPT ![i] = "while"]
                           /\ now' = now + d
                           /\ UNCHANGED calibrated_flag
        /\ UNCHANGED <<emothreads, frames, lastCall, callerTtl, camera_active, loops>>
        /\ UNCHANGED <<heap, recent, last_alert_time, pattern_memory,
                       nextId, ret, log, enqueued, dequeued, deqRun, lastOp>>
        /\ UNCHANGED <<thrVars, memVars, reviewVars>>

\* A client requests /video_feed: the thread of the request runs
\* generate_frames
VideoFeed ==
    /\ Len(loops) < MaxLoops
    /\ loops' = Append(loops, NewLoop("generate_frames"))
    /\ UNCHANGED <<frameVars, calibrated_flag, camera_active, driver_start_time, ticks,
                   timers, lastBaseline>>
    /\ UNCHANGED <<alertVars, thrVars, memVars, reviewVars>>

\* What the camera shows to a thread inside get_frame
LoopInputs == {NoFace, CalmFrame}

\* The test "while camera_active" of generate_frames or send_analysis_data by
\* a thread: the thread ends, or it enters get_frame and calls process_frame
\* with the flag calibrated as it is now; it has read the globals of
\* deception_detection as they are now
LoopWhile ==
    \E i \in 1..Len(loops) :
        /\ loops[i].pc = "while"
        /\ IF ~camera_active
           THEN /\ loops' = Without(loops, i)
                /\ frames' = frames
           ELSE /\ frames < MaxFrames
                /\ frames' = frames + 1
                /\ loops' = [loops EXCEPT ![i].pc = "process_frame",
                                          ![i].seen = [st |-> dd,
                                                       calibrated |-> calibrated_flag]]
        /\ UNCHANGED <<dd, emothreads, lastCall, callerTtl, calibrated_flag,
                       camera_active, driver_start_time, ticks, timers, lastBaseline>>
        /\ UNCHANGED <<alertVars, thrVars, memVars, reviewVars>>

\* A thread inside process_frame returns from it and sleeps until the next
\* test of its loop.  No lock is held: when the globals have been written
\* since the thread read them, its writes are made on what it read or on what
\* is there now
LoopFrame ==
    \E i \in 1..Len(loops) :
        /\ loops[i].pc = "process_frame"
        /\ \E inp \in LoopInputs, base \in {dd, loops[i].seen.st} :
               \E r \in {process_frame(base, inp, loops[i].seen.calibrated,
                                       DEFAULT_TTL, current_thresholds, now)} :
                   /\ dd' = r.st
                   /\ emothreads' = IF r.started THEN Append(emothreads, NewThread)
                                    ELSE emothreads
        /\ loops' = [loops EXCEPT ![i] = NewLoop(loops[i].kind)]
        /\ UNCHANGED <<frames, lastCall, callerTtl, calibrated_flag, camera_active,
                       driver_start_time, ticks, timers, lastBaseline>>
        /\ UNCHANGED <<alertVars, thrVars, memVars, reviewVars>>

----------------------------------------------------------------------------
(* review_mode: ReviewSession.  A value that may be None is None or a      *)
(* record [at |-> value]; timestamps are in tenths of a second, confidences *)
(* in hundredths and BPM values in beats                                   *)

\* What time.time() advances by between two calls on a session
ReviewSteps == {1}

\* session_name or f"session_{datetime.now().strftime(...)}"
NameOrGenerated(session_name, t) ==
    IF session_name = "" THEN "session_" \o ToString(t) ELSE session_name

\* ReviewSession(session_name) when the clock reads t ("" for a name of None)
NewReviewSession(session_name, t) ==
    [session_name |-> NameOrGenerated(session_name, t),
     start_time |-> t,
     calibration_end_time |-> None,
     events |-> <<>>,
     key_moments |-> <<>>,
     frame_count |-> 0,
     stress_levels |-> <<>>,
     bpm_values |-> <<>>,
     timestamps |-> <<>>,
     baseline_bpm |-> 0,
     video_file |-> None,
     fps |-> 30]

\* re.search(r'BPM:\s*(\d+\.?\d*)', bpm_text) under the test that the text has
\* 'BPM:' and neither 'Collecting' nor 'Calculating': the number matched, 0
\* for no match
MatchedBpm(bpm_text) ==
    CASE bpm_text = "BPM: 75.0" -> 75
      [] bpm_text = "BPM: 210.0" -> 210
      [] OTHER -> 0

\* The upper end of the range of BPM values add_event keeps
REVIEW_MAX_BPM == 200

\* The loop of add_event over tells.items(), from item i on: the dict is the
\* sequence of its items in insertion order
RECURSIVE AddTells(_, _, _, _, _, _, _)
AddTells(session, tells, i, timestamp, frame, stress_level, confidence) ==
    IF i > Len(tells) THEN session
    ELSE LET bpm == IF tells[i].type = "avg_bpms" THEN MatchedBpm(tells[i].text) ELSE 0
             event == [timestamp |-> timestamp,
                       frame_number |-> frame,
                       tell_type |-> tells[i].type,
                       tell_text |-> tells[i].text,
                       stress_level |-> stress_level,
                       confidence |-> confidence]
         IN  AddTells([session EXCEPT
                          !.bpm_values = IF bpm # 0 /\ MIN_BPM <= bpm
                                            /\ bpm <= REVIEW_MAX_BPM
                                         THEN Append(@, bpm) ELSE @,
                          !.events = Append(@, event)],
                      tells, i + 1, timestamp, frame, stress_level, confidence)

\* add_event(tells, stress_level, confidence, frame_number) when the clock
\* reads t; a frame_number of None or 0 gives way to frame_count
add_event(session, tells, stress_level, confidence, frame_number, t) ==
    LET timestamp == t - session.start_time
        frame == IF frame_number = None \/ frame_number.at = 0
                 THEN session.frame_count ELSE frame_number.at
        added == AddTells(session, tells, 1, timestamp, frame, stress_level, confidence)
    IN  [added EXCEPT !.stress_levels = Append(@, stress_level),
                      !.timestamps = Append(@, timestamp),
                      !.frame_count = @ + 1]

\* add_key_moment(tells, confidence, reason, notes) when the clock reads t
add_key_moment(session, tells, confidence, reason, notes, t) ==
    [session EXCEPT !.key_moments =
        Append(@, [timestamp |-> t - session.start_time,
                   frame_number |-> session.frame_count,
                   reason |-> reason,
                   tells |-> tells,
                   confidence |-> confidence,
                   notes |-> notes])]

\* add_manual_marker(notes)
add_manual_marker(session, notes, t) ==
    add_key_moment(session, <<>>, 0, "manual", notes, t)

\* set_calibration_complete(baseline_bpm)
set_calibration_complete(session, baseline_bpm, t) ==
    [session EXCEPT !.calibration_end_time = [at |-> t],
                    !.baseline_bpm = baseline_bpm]

\* The largest and the smallest value of a non-empty list
MaxOf(xs) == CHOOSE x \in Range(xs) : \A y \in Range(xs) : y <= x

MinOf(xs) == CHOOSE x \in Range(xs) : \A y \in Range(xs) : x <= y

\* get_statistics() when the clock reads t.  A quotient is the pair of its
\* numerator and denominator
get_statistics(session, t) ==
    LET duration == t - session.start_time
        types == {session.events[i].tell_type : i \in 1..Len(session.events)}
        tells_by_type ==
            [k \in types |->
                Cardinality({i \in 1..Len(session.events) :
                                session.events[i].tell_type = k})]
        total_tells == Len(session.events)
        levels == session.stress_levels
        total_stress_frames == IF Len(levels) = 0 THEN 1 ELSE Len(levels)
        Share(level) ==
            [num |-> 100 * Cardinality({i \in 1..Len(levels) : levels[i] = level}),
             den |-> total_stress_frames]
        max_idx == IF levels = <<>> THEN 0
                   ELSE CHOOSE i \in 1..Len(levels) :
                            /\ levels[i] = MaxOf(levels)
                            /\ \A j \in 1..(i - 1) : levels[j] < levels[i]
        bpms == session.bpm_values
        high_conf_events == SelectSeq(session.events, LAMBDA e : e.confidence >= 60)
        confidences == [i \in 1..Len(high_conf_events) |-> high_conf_events[i].confidence]
    IN  [duration |-> duration,
         total_frames |-> session.frame_count,
         calibration_duration |->
             IF session.calibration_end_time # None
             THEN session.calibration_end_time.at - session.start_time ELSE 0,
         total_tells |-> total_tells,
         tells_by_type |-> tells_by_type,
         tells_per_minute |-> IF duration > 0
                              THEN [num |-> total_tells * 600, den |-> duration]
                              ELSE [num |-> 0, den |-> 1],
         stress_distribution |->
             [LOW |-> Share(1), MEDIUM |-> Share(2), HIGH |-> Share(3)],
         avg_stress_level |-> [num |-> SumSeq(levels), den |-> total_stress_frames],
         max_stress_timestamp |-> IF max_idx = 0 THEN 0 ELSE session.timestamps[max_idx],
         baseline_bpm |-> session.baseline_bpm,
         avg_bpm |-> IF bpms # <<>> THEN [num |-> SumSeq(bpms), den |-> Len(bpms)]
                     ELSE [num |-> 0, den |-> 1],
         max_bpm |-> IF bpms # <<>> THEN MaxOf(bpms) ELSE 0,
         min_bpm |-> IF bpms # <<>> THEN MinOf(bpms) ELSE 0,
         bpm_variance |->
             IF bpms # <<>>
             THEN [num |-> Len(bpms) * SumSeq([i \in 1..Len(bpms) |-> bpms[i] * bpms[i]])
                              - SumSeq(bpms) * SumSeq(bpms),
                   den |-> Len(bpms) * Len(bpms)]
             ELSE [num |-> 0, den |-> 1],
         total_alerts |-> Len(high_conf_events),
         high_confidence_alerts |-> Len(high_conf_events),
         avg_alert_confidence |->
             IF high_conf_events # <<>>
             THEN [num |-> SumSeq(confidences), den |-> Len(high_conf_events)]
             ELSE [num |-> 0, den |-> 1],
         key_moments_count |-> Len(session.key_moments)]

\* The directories that exist where the sessions are saved
ExistingDirs == {"sessions"}

\* The path save writes to: sessions_dir is "" for None
FilePath(session, sessions_dir) ==
    IF sessions_dir = "" THEN session.session_name \o "_review.json"
    ELSE sessions_dir \o "/" \o session.session_name \o "_review.json"

\* The fields of a TellEvent and of a KeyMoment, in the order of the dataclass
TellEventFields ==
    <<"timestamp", "frame_number", "tell_type", "tell_text", "stress_level",
      "confidence">>

KeyMomentFields ==
    <<"timestamp", "frame_number", "reason", "tells", "confidence", "notes">>

\* to_dict() of a TellEvent or of a KeyMoment as json.dump writes it and
\* json.load reads it: the keys in the order of the fields and the value of
\* each.  A number is read back as the number it was (json writes the repr
\* of a float), a string as the string and a list as a list
to_dict(obj, fields) ==
    [keys |-> fields, values |-> [i \in 1..Len(fields) |-> obj[fields[i]]]]

\* e_dict[key]
Item(e_dict, key) ==
    e_dict.values[CHOOSE i \in 1..Len(e_dict.keys) : e_dict.keys[i] = key]

\* The document save() hands to json.dump when the clock reads t
SavedData(session, t) ==
    [session_name |-> session.session_name,
     start_time |-> session.start_time,
     calibration_end_time |-> session.calibration_end_time,
     video_file |-> session.video_file,
     fps |-> session.fps,
     events |-> [i \in 1..Len(session.events) |->
                    to_dict(session.events[i], TellEventFields)],
     key_moments |-> [i \in 1..Len(session.key_moments) |->
                         to_dict(session.key_moments[i], KeyMomentFields)],
     statistics |-> get_statistics(session, t)]

\* TellEvent(**e_dict) with the confidence left at its default
TellEventDefaultConfidence(e_dict) ==
    [timestamp |-> Item(e_dict, "timestamp"),
     frame_number |-> Item(e_dict, "frame_number"),
     tell_type |-> Item(e_dict, "tell_type"),
     tell_text |-> Item(e_dict, "tell_text"),
     stress_level |-> Item(e_dict, "stress_level"),
     confidence |-> 0]

\* TellEvent(**e_dict)
TellEventFromDict(e_dict) ==
    [timestamp |-> Item(e_dict, "timestamp"),
     frame_number |-> Item(e_dict, "frame_number"),
     tell_type |-> Item(e_dict, "tell_type"),
     tell_text |-> Item(e_dict, "tell_text"),
     stress_level |-> Item(e_dict, "stress_level"),
     confidence |-> Item(e_dict, "confidence")]

\* KeyMoment(**m_dict)
KeyMomentFromDict(m_dict) ==
    [timestamp |-> Item(m_dict, "timestamp"),
     frame_number |-> Item(m_dict, "frame_number"),
     reason |-> Item(m_dict, "reason"),
     tells |-> Item(m_dict, "tells"),
     confidence |-> Item(m_dict, "confidence"),
     notes |-> Item(m_dict, "notes")]

\* ReviewSession.load on a file that holds data, when the clock reads t
load(data, t) ==
    LET events == [i \in 1..Len(data.events) |-> TellEventFromDict(data.events[i])]
        shown == SelectSeq(events, LAMBDA e : e.tell_type # "avg_bpms")
    IN  [NewReviewSession(data.session_name, t) EXCEPT
            !.start_time = data.start_time,
            !.calibration_end_time = data.calibration_end_time,
            !.video_file = data.video_file,
            !.fps = data.fps,
            !.events = events,
            !.stress_levels = [i \in 1..Len(shown) |-> shown[i].stress_level],
            !.timestamps = [i \in 1..Len(shown) |-> shown[i].timestamp],
            !.key_moments = [i \in 1..Len(data.key_moments) |->
                                KeyMomentFromDict(data.key_moments[i])],
            !.frame_count =
                IF events = <<>> THEN 0
                ELSE MaxOf([i \in 1..Len(events) |-> events[i].frame_number])]

\* The tells of a frame handed to add_event, as the items of the dict
ReviewTells ==
    [bpm |-> << [type |-> "avg_bpms", text |-> "BPM: 75.0"],
                [type |-> "bpm_change", text |-> "Heart rate increasing"] >>,
     collecting |-> << [type |-> "avg_bpms", text |-> "BPM: Collecting..."] >>,
     lips |-> << [type |-> "lips", text |-> "Lip compression"],
                 [type |-> "avg_bpms", text |-> "BPM: 210.0"] >>,
     none |-> << >>]

\* The calls of add_event the model makes
AddEventCalls ==
    { [tells |-> ReviewTells.bpm, stress_level |-> 2, confidence |-> 0,
       frame_number |-> [at |-> 7]],
      [tells |-> ReviewTells.lips, stress_level |-> 3, confidence |-> 80,
       frame_number |-> None],
      [tells |-> ReviewTells.collecting, stress_level |-> 1, confidence |-> 0,
       frame_number |-> [at |-> 0]],
      [tells |-> ReviewTells.none, stress_level |-> 1, confidence |-> 0,
       frame_number |-> None] }

\* The directories the model saves to: None, one that exists and one that
\* does not
SaveDirs == {"", "sessions", "test_session.json"}

\* add_event on the recorded session
AddEvent ==
    \E call \in AddEventCalls, d \in ReviewSteps :
        /\ reviewCalls < MaxReviewCalls
        /\ reviewCalls' = reviewCalls + 1
        /\ review_session' = add_event(review_session, call.tells, call.stress_level,
                                       call.confidence, call.frame_number, now + d)
        /\ now' = now + d
        /\ lastOp' = "add_event"
        /\ UNCHANGED <<review_file, loaded_session>>
        /\ UNCHANGED <<heap, recent, last_alert_time, pattern_memory, nextId, ret, log,
                       enqueued, dequeued, deqRun>>
        /\ UNCHANGED <<thrVars, memVars, ddVars>>

\* add_key_moment for a cluster of an alert, or add_manual_marker, on the
\* recorded session
AddKeyMoment ==
    \E manual \in BOOLEAN, d \in ReviewSteps :
        /\ reviewCalls < MaxReviewCalls
        /\ reviewCalls' = reviewCalls + 1
        /\ review_session' =
               IF manual THEN add_manual_marker(review_session, "note", now + d)
               ELSE add_key_moment(review_session, <<"bpm_change", "lips">>, 80,
                                   "alert_cluster", "", now + d)
        /\ now' = now + d
        /\ lastOp' = "add_key_moment"
        /\ UNCHANGED <<review_file, loaded_session>>
        /\ UNCHANGED <<heap, recent, last_alert_time, pattern_memory, nextId, ret, log,
                       enqueued, dequeued, deqRun>>
        /\ UNCHANGED <<thrVars, memVars, ddVars>>

\* set_calibration_complete(75.0) followed by the caller's
\* session.video_file = "test_video.avi"
CalibrationComplete ==
    \E d \in ReviewSteps :
        /\ reviewCalls < MaxReviewCalls
        /\ review_session.calibration_end_time = None
        /\ reviewCalls' = reviewCalls + 1
        /\ review_session' =
               [set_calibration_complete(review_session, 75, now + d)
                    EXCEPT !.video_file = [at |-> "test_video.avi"]]
        /\ now' = now + d
        /\ lastOp' = "set_calibration_complete"
        /\ UNCHANGED <<review_file, loaded_session>>
        /\ UNCHANGED <<heap, recent, last_alert_time, pattern_memory, nextId, ret, log,
                       enqueued, dequeued, deqRun>>
        /\ UNCHANGED <<thrVars, memVars, ddVars>>

\* save(sessions_dir) on the recorded session: open() raises when the
\* directory does not exist and nothing is written.  The file keeps, for the
\* record, the session it was written from
Save ==
    \E sessions_dir \in SaveDirs :
        /\ IF sessions_dir = "" \/ sessions_dir \in ExistingDirs
           THEN /\ review_file' = [path |-> FilePath(review_session, sessions_dir),
                                   data |-> SavedData(review_session, now),
                                   of |-> review_session]
                /\ lastOp' = "save"
           ELSE /\ review_file' = review_file
                /\ lastOp' = "save_raised"
        /\ UNCHANGED <<review_session, loaded_session, reviewCalls>>
        /\ UNCHANGED <<heap, recent, last_alert_time, pattern_memory, now, nextId, ret,
                       log, enqueued, dequeued, deqRun>>
        /\ UNCHANGED <<thrVars, memVars, ddVars>>

\* ReviewSession.load(filepath) of the file save wrote
Load ==
    \E d \in ReviewSteps :
        /\ review_file # None
        /\ reviewCalls < MaxReviewCalls
        /\ reviewCalls' = reviewCalls + 1
        /\ loaded_session' = load(review_file.data, now + d)
        /\ now' = now + d
        /\ lastOp' = "load"
        /\ UNCHANGED <<review_session, review_file>>
        /\ UNCHANGED <<heap, recent, last_alert_time, pattern_memory, nextId, ret, log,
                       enqueued, dequeued, deqRun>>
        /\ UNCHANGED <<thrVars, memVars, ddVars>>

\* The names the model gives a new session: the empty one stands for None
SessionNames == {"save_test", ""}

\* ReviewSession(session_name): the session recorded from now on
NewSession ==
    \E session_name \in SessionNames, d \in ReviewSteps :
        /\ reviewCalls < MaxReviewCalls
        /\ reviewCalls' = reviewCalls + 1
        /\ review_session' = NewReviewSession(session_name, now + d)
        /\ now' = now + d
        /\ lastOp' = "new_session"
        /\ UNCHANGED <<review_file, loaded_session>>
        /\ UNCHANGED <<heap, recent, last_alert_time, pattern_memory, nextId, ret, log,
                       enqueued, dequeued, deqRun>>
        /\ UNCHANGED <<thrVars, memVars, ddVars>>

\* A ReviewSession constructed with the managers and no call made on it
InitReview ==
    /\ review_session = NewReviewSession("save_test", StartTime)
    /\ review_file = None
    /\ loaded_session = None
    /\ reviewCalls = 0

----------------------------------------------------------------------------
(* Initial state and specifications *)

InitManagers ==
    /\ heap = <<>>
    /\ recent = <<>>
    /\ last_alert_time = 0
    /\ pattern_memory = <<>>
    /\ now = StartTime
    /\ nextId = 1
    /\ ret = None
    /\ log = <<>>
    /\ enqueued = {}
    /\ dequeued = <<>>
    /\ deqRun = <<>>
    /\ lastOp = "init"
    /\ current_thresholds = default_thresholds
    /\ detection_history = <<>>
    /\ successful_detections = 0
    /\ records = 0
    /\ current_session = None
    /\ session_start_time = 0
    /\ sessionsStarted = 0
    /\ sessionInputs = <<>>
    /\ priorEvents = 0
    /\ InitReview

\* deception_detection imported and no driver started
InitDetection ==
    /\ dd = ImportState
    /\ emothreads = <<>>
    /\ frames = 0
    /\ lastCall = [n |-> 0]
    /\ callerTtl = DEFAULT_TTL
    /\ calibrated_flag = FALSE
    /\ camera_active = FALSE
    /\ driver_start_time = 0
    /\ ticks = 0
    /\ timers = <<>>
    /\ lastBaseline = [n |-> 0]
    /\ loops = <<>>

Init == InitManagers /\ plan = None /\ InitDetection

\* One AlertManager driven through process()
Next == ProcessCall

Spec == Init /\ [][Next]_vars

\* One AlertManager used as a priority queue
NextQueue == EnqueueCall \/ DequeueCall

SpecQueue == Init /\ [][NextQueue]_vars

\* One AdaptiveThresholdManager recording detections of any kind
NextThresholds == RecordCall

SpecThresholds == Init /\ [][NextThresholds]_vars

\* One AdaptiveThresholdManager recording the same detection again and again
InitRun == InitManagers /\ plan \in Plans /\ InitDetection

NextRun == RepeatCall

SpecRun == InitRun /\ [][NextRun]_vars

\* The alert manager and the threshold manager driven by send_analysis_data
NextAnalysis == SendAnalysisData

SpecAnalysis == Init /\ [][NextAnalysis]_vars

\* One MemorySystem through sessions
NextMemory == StartNewSession \/ RecordDetectionEvent

SpecMemory == Init /\ [][NextMemory]_vars

\* process_frame called frame by frame, with any flag, after a run of frames,
\* and the get_mood threads it starts
InitFrames ==
    /\ InitManagers
    /\ plan = None
    /\ \E sc \in Scenarios :
           /\ dd = sc.w.st
           /\ emothreads = sc.w.threads
           /\ callerTtl = sc.ttl
    /\ frames = 0
    /\ lastCall = [n |-> 0]
    /\ calibrated_flag = FALSE
    /\ camera_active = FALSE
    /\ driver_start_time = 0
    /\ ticks = 0
    /\ timers = <<>>
    /\ lastBaseline = [n |-> 0]
    /\ loops = <<>>

NextFrames == ProcessFrameCall \/ MoodDetected \/ MoodUpdate \/ MoodReset

SpecFrames == InitFrames /\ [][NextFrames]_vars

----------------------------------------------------------------------------
(* process_frame and get_mood step by step: the call that starts a         *)
(* get_mood thread is split between emothread.start() (line 644) and       *)
(* calculating_mood = True (line 645)                                      *)

\* The states the step-by-step frames start from:
\*   4 frames of a calm subject, the next frame with a face starts get_mood;
\*   a baseline calculated from 178 frames, a get_mood thread still running
MoodScenarios ==
    { Run(Imported, "calm", FALSE, DEFAULT_TTL, 4),
      Calibrated(178, DEFAULT_TTL) }

\* process_frame, lines 604-644: a call that does not start a get_mood thread
\* runs to its end; a call that starts one stops after emothread.start().
\* get_mood reads and writes calculating_mood, mood and mood_history only,
\* none of them written by process_frame before line 645, so that the globals
\* the call has written so far are applied with the rest of the call
ProcessFrameStart ==
    \E i \in 1..Len(loops), call \in FrameCalls :
        \E r \in {process_frame(dd, call.inp, call.calibrated, callerTtl,
                                current_thresholds, now)} :
            /\ loops[i].pc = "while"
            /\ frames < MaxFrames
            /\ frames' = frames + 1
            /\ IF r.started
               THEN /\ emothreads' = Append(emothreads, NewThread)
                    /\ loops' = [loops EXCEPT ![i] =
                                     [kind |-> loops[i].kind, pc |-> "set_flag",
                                      seen |-> [st |-> dd, call |-> call]]]
                    /\ dd' = dd
               ELSE /\ dd' = r.st
                    /\ UNCHANGED <<emothreads, loops>>
            /\ UNCHANGED <<lastCall, callerTtl, calibrated_flag, camera_active,
                           driver_start_time, ticks, timers, lastBaseline>>
            /\ UNCHANGED <<alertVars, thrVars, memVars, reviewVars>>

\* process_frame, lines 645-814: calculating_mood = True and the rest of the
\* call, with mood and mood_history as the get_mood threads have left them
ProcessFrameSetFlag ==
    \E i \in 1..Len(loops) :
        /\ loops[i].pc = "set_flag"
        /\ \E r \in {process_frame([loops[i].seen.st
                                       EXCEPT !.mood = dd.mood,
                                              !.mood_history = dd.mood_history],
                                   loops[i].seen.call.inp,
                                   loops[i].seen.call.calibrated, callerTtl,
                                   current_thresholds, now)} :
               dd' = r.st
        /\ loops' = [loops EXCEPT ![i] = NewLoop(loops[i].kind)]
        /\ UNCHANGED <<emothreads, frames, lastCall, callerTtl, calibrated_flag,
                       camera_active, driver_start_time, ticks, timers, lastBaseline>>
        /\ UNCHANGED <<alertVars, thrVars, memVars, reviewVars>>

\* The main loop of a driver about to call process_frame, after a run of frames
InitMood ==
    /\ InitManagers
    /\ plan = None
    /\ \E w \in MoodScenarios :
           /\ dd = w.st
           /\ emothreads = w.threads
    /\ callerTtl = DEFAULT_TTL
    /\ frames = 0
    /\ lastCall = [n |-> 0]
    /\ calibrated_flag = FALSE
    /\ camera_active = FALSE
    /\ driver_start_time = 0
    /\ ticks = 0
    /\ timers = <<>>
    /\ lastBaseline = [n |-> 0]
    /\ loops = <<NewLoop("main")>>

NextMood ==
    \/ ProcessFrameStart
    \/ ProcessFrameSetFlag
    \/ MoodDetected
    \/ MoodUpdate
    \/ MoodReset

\* Every thread that can take a step takes it in the end: the main loop goes
\* on from line 644 to line 645, top_emotion returns, get_mood reaches its end
SpecMood ==
    /\ InitMood
    /\ [][NextMood]_vars
    /\ WF_vars(ProcessFrameSetFlag)
    /\ WF_vars(MoodDetected)
    /\ WF_vars(MoodUpdate)
    /\ WF_vars(MoodReset)

\* play_webcam from its start
InitMain ==
    /\ InitManagers
    /\ plan = None
    /\ dd = ImportState
    /\ emothreads = <<>>
    /\ frames = 0
    /\ lastCall = [n |-> 0]
    /\ callerTtl = DEFAULT_TTL
    /\ calibrated_flag = FALSE
    /\ camera_active = FALSE
    /\ driver_start_time = StartTime
    /\ ticks = 0
    /\ timers = <<>>
    /\ lastBaseline = [n |-> 0]
    /\ loops = <<>>

NextMain == PlayWebcamLoop

SpecMain == InitMain /\ [][NextMain]_vars

\* web_app when the server has started
InitWeb == InitManagers /\ plan = None /\ InitDetection

NextWeb ==
    \/ StartCamera
    \/ StopCamera
    \/ GetFrame
    \/ TimerWhile
    \/ TimerDue

SpecWeb == InitWeb /\ [][NextWeb]_vars

\* web_app with the threads of its frame loops, while the camera is not
\* stopped
NextThreads ==
    \/ StartCamera
    \/ VideoFeed
    \/ LoopWhile
    \/ LoopFrame
    \/ TimerWhile
    \/ TimerDue

SpecThreads == InitWeb /\ [][NextThreads]_vars

\* calculate_baseline and process_frame called one by one
InitBaseline ==
    /\ InitManagers
    /\ plan = None
    /\ \E w \in BaselineScenarios :
           /\ dd = w.st
           /\ emothreads = w.threads
    /\ callerTtl = DEFAULT_TTL
    /\ frames = 0
    /\ lastCall = [n |-> 0]
    /\ calibrated_flag = FALSE
    /\ camera_active = FALSE
    /\ driver_start_time = 0
    /\ ticks = 0
    /\ timers = <<>>
    /\ lastBaseline = [n |-> 0]
    /\ loops = <<>>

NextBaseline == CalculateBaselineCall \/ ProcessFrameCall

SpecBaseline == InitBaseline /\ [][NextBaseline]_vars

\* A ReviewSession recorded, saved and loaded
NextReview ==
    \/ NewSession
    \/ AddEvent
    \/ AddKeyMoment
    \/ CalibrationComplete
    \/ Save
    \/ Load

SpecReview == Init /\ [][NextReview]_vars

----------------------------------------------------------------------------
(* Properties of AlertManager.process (specification Spec) *)

\* The calls of process() that built an Alert
Built == {i \in 1..Len(log) : log[i].built}

\* The calls of process() whose Alert reached the false-positive filter
Candidates == {i \in Built : log[i].filter # "skipped"}

\* Number of distinct indicator kinds of the Alert built by call i
K(i) == Cardinality(Range(log[i].alert.indicators))

PatternCount(i) ==
    Cardinality({j \in Candidates :
                    /\ j <= i
                    /\ Range(log[j].alert.indicators) = Range(log[i].alert.indicators)
                    /\ log[i].now - log[j].now < 30})

\* C3: the filter rejects a candidate exactly when (a) less than 1.2 s have
\* passed since the last accepted alert and (b) the pattern occurred fewer than
\* 2 times within 3 s and (c) the cluster has fewer than 2 indicators; in every
\* other case the candidate is accepted.
C3_RejectsOnlyWhenAllThree ==
    \A i \in Candidates :
        (log[i].filter = "reject") <=>
            (/\ log[i].now - log[i].last < 12
             /\ PatternCount(i) < 2
             /\ K(i) < 2)

\* C4: the confidence of the Alert is min(1.0, 0.2 + 0.25 k) for the number k
\* of distinct kinds of its cluster: 0.45, 0.7, 0.95, then 1.0 from k = 4 on;
\* it does not decrease when k grows.
C4_ConfidenceByDistinctKinds ==
    /\ \A i \in Built :
          log[i].alert.confidence =
              (CASE K(i) = 1 -> 45 [] K(i) = 2 -> 70 [] K(i) = 3 -> 95 [] OTHER -> 100)
    /\ \A i, j \in Built :
          K(i) <= K(j) => log[i].alert.confidence <= log[j].alert.confidence

\* An Alert whose cluster repeats a kind, and one with more than four kinds
C4_Witness ==
    /\ \E i \in Built : K(i) = 3 /\ Len(log[i].alert.indicators) > 3
    /\ \E i \in Built : K(i) > 4

\* The weight of one kind, as the claim lists them
ClaimedWeight(k) ==
    CASE k = "bpm_change" -> 30
      [] k = "hand" -> 20
      [] k = "blinking" -> 15
      [] k = "lips" -> 15
      [] k = "gaze" -> 10
      [] k = "avg_bpms" -> 5
      [] OTHER -> 5

\* C5: the priority of the Alert is the sum of the weights of the distinct
\* kinds of its cluster plus 10 times the stress level.
C5_PriorityByDistinctKinds ==
    \A i \in Built :
        log[i].alert.priority =
            SumSet(Range(log[i].alert.indicators), [k \in Kinds |-> ClaimedWeight(k)])
                + 10 * log[i].stress

\* An Alert whose cluster repeats a kind, built with a positive stress level,
\* and one that holds a kind without a weight of its own
C5_Witness ==
    /\ \E i \in Built :
          /\ Len(log[i].alert.indicators) > K(i)
          /\ log[i].stress > 0
    /\ \E i \in Built : "other" \in Range(log[i].alert.indicators)

\* C6 as stated: every invocation of process enqueues exactly one Alert, so
\* the queue is as long as the number of invocations.
C6_OneAlertPerInvocation == Len(heap) = Len(log)

\* C6 amended: every invocation of process with a non-empty tell map enqueues
\* exactly one Alert, whatever its confidence and the filter's verdict, and an
\* invocation with an empty tell map enqueues none.
C6_OneAlertPerNonEmptyInvocation ==
    /\ Built = {i \in 1..Len(log) : log[i].keys # <<>>}
    /\ Len(heap) = Cardinality(Built)
    /\ \A i \in Built :
          Cardinality({j \in 1..Len(heap) : heap[j].alert = log[i].alert}) = 1

\* An empty call, a call below the threshold and a rejected or accepted one
C6_Witness ==
    /\ \E i \in 1..Len(log) : log[i].keys = <<>>
    /\ \E i \in Built : log[i].alert.confidence < 60
    /\ \E i \in Candidates : TRUE

\* C8: when three successive calls on a fresh manager, all within the
\* clustering window, carry one kind, then two, then three or more, the call
\* at which the cluster first holds three kinds returns an Alert.
C8_GrowingClusterAlerts ==
    (/\ Len(log) >= 3
     /\ {1, 2, 3} \subseteq Built
     /\ K(1) = 1 /\ K(2) = 2 /\ K(3) >= 3
     /\ log[1].ts <= log[2].ts /\ log[2].ts <= log[3].ts
     /\ log[3].ts - log[1].ts <= 30)
        => log[3].filter = "accept"

\* C21: the indicators of every Alert built by process hold each indicator
\* kind at most once.
C21_IndicatorsDistinct ==
    \A i \in Built :
        LET ind == log[i].alert.indicators
        IN  \A a, b \in 1..Len(ind) : a # b => ind[a] # ind[b]

\* The calls of process() up to call i that appended to the raw event log and
\* whose timestamp is no more than window before and not after that of call i
CallsWithin(i, window) ==
    {j \in Built : j <= i /\ log[i].ts - window <= log[j].ts /\ log[j].ts <= log[i].ts}

\* The kinds present in the calls of J
KindsOf(J) == UNION {Range(log[j].keys) : j \in J}

\* C30: the cluster of a call with timestamp ts is the set of kinds present
\* in the calls whose timestamp lies in [ts - CLUSTER_WINDOW, ts]; after the
\* call the raw event log holds no entry older than ts - LOOKBACK and every
\* entry of the last LOOKBACK.
C30_ClusterIsWindow ==
    (Len(log) > 0 /\ log[Len(log)].built) =>
        LET i == Len(log)
            ts == log[i].ts
        IN  /\ Range(log[i].alert.indicators) = KindsOf(CallsWithin(i, CLUSTER_WINDOW))
            /\ \A e \in Range(recent) : e.t >= ts - LOOKBACK
            /\ \A j \in CallsWithin(i, LOOKBACK) :
                   \A k \in Range(log[j].keys) : [t |-> log[j].ts, k |-> k] \in Range(recent)

----------------------------------------------------------------------------
(* Properties of the priority queue (specification SpecQueue) *)

Ids(s) == {s[i].id : i \in 1..Len(s)}

\* C7: successive dequeues without an enqueue in between return alerts of
\* non-increasing priority, every enqueued alert is returned exactly once, and
\* a dequeue on an empty queue returns None.
C7_DequeueOrder ==
    /\ \A i \in 1..Len(deqRun) - 1 : deqRun[i].priority >= deqRun[i + 1].priority
    /\ \A i, j \in 1..Len(dequeued) : i # j => dequeued[i].id # dequeued[j].id
    /\ Ids(dequeued) \cup {heap[i].alert.id : i \in 1..Len(heap)} = enqueued
    /\ Ids(dequeued) \cap {heap[i].alert.id : i \in 1..Len(heap)} = {}
    /\ lastOp = "dequeue_empty" => ret = None /\ Ids(dequeued) = enqueued
    /\ lastOp = "dequeue" => ret = dequeued[Len(dequeued)]

\* Four alerts enqueued out of order and dequeued in one run
C7_Witness ==
    /\ Len(deqRun) = 4
    /\ deqRun[1].priority > deqRun[4].priority
    /\ deqRun[1].id > deqRun[4].id
    /\ heap = <<>>

\* C22: alerts of equal priority that were queued together are dequeued in
\* the order in which they were enqueued.
C22_EqualPriorityFifo ==
    \A i, j \in 1..Len(deqRun) :
        (i < j /\ deqRun[i].priority = deqRun[j].priority)
            => deqRun[i].id < deqRun[j].id

\* C23: get_pending(limit) lists min(limit, queue size) alerts, of
\* non-increasing priority, and none of the alerts it leaves out has a higher
\* priority than one it lists.
C23_PendingHighestFirst ==
    \A limit \in 0..Len(heap) :
        LET pending == GetPending(heap, limit)
            listed == Ids(pending)
        IN  /\ Len(pending) = Min(limit, Len(heap))
            /\ \A i \in 1..Len(pending) - 1 :
                   pending[i].priority >= pending[i + 1].priority
            /\ \A i \in 1..Len(pending), j \in 1..Len(heap) :
                   heap[j].alert.id \notin listed
                       => heap[j].alert.priority <= pending[i].priority

----------------------------------------------------------------------------
(* Properties of AdaptiveThresholdManager (SpecThresholds, SpecRun) *)

\* C9: over any sequence of record_detection calls every threshold stays
\* between 0.8 times its default and its default, and never increases from
\* one call to the next.
C9_ThresholdsBoundedNonIncreasing ==
    /\ [](\A k \in ThresholdKeys :
            /\ (default_thresholds[k] * 8) \div 10 <= current_thresholds[k]
            /\ current_thresholds[k] <= default_thresholds[k])
    /\ [][\A k \in ThresholdKeys : current_thresholds'[k] <= current_thresholds[k]]_vars

\* One threshold on its floor, one strictly between floor and default, and
\* one still at its default
C9_Witness ==
    /\ current_thresholds["hand_face_frequency"] = 1600000
    /\ current_thresholds["gaze_stability"] > 4000000
    /\ current_thresholds["gaze_stability"] < 5000000
    /\ current_thresholds["bpm_change"] = 3000000
    /\ records = MaxRecords

\* A run of high-confidence detections whose indicators are exactly ['hand']
HandRun == plan.inds = <<"hand">> /\ plan.conf >= 70

\* C10 as stated: after 10 such detections the hand threshold is on its
\* floor 16.0, and the 11th leaves it there.
C10_FloorAfterTen ==
    (HandRun /\ records \in {10, 11}) =>
        current_thresholds["hand_face_frequency"] = 1600000

\* C10 amended: after 10 such detections the hand threshold is 20 * 0.99^10,
\* about 18.09, still above the floor; it is on its floor 16.0 from the 23rd
\* detection on, and further detections leave it there.
C10_FloorAfterTwentyThree ==
    HandRun =>
        /\ records = 10 =>
              /\ current_thresholds["hand_face_frequency"] > 1808000
              /\ current_thresholds["hand_face_frequency"] < 1809000
        /\ records < 23 => current_thresholds["hand_face_frequency"] > 1600000
        /\ records >= 23 => current_thresholds["hand_face_frequency"] = 1600000

\* The 24th detection of the run has been recorded
C10_Witness ==
    /\ HandRun
    /\ records = 24
    /\ successful_detections = 24
    /\ current_thresholds["hand_face_frequency"] = 1600000

----------------------------------------------------------------------------
(* Properties of the alert-to-threshold path (specification SpecAnalysis) *)

\* The last pass of send_analysis_data recorded an Alert of high confidence
RecordedHigh ==
    /\ lastOp = "send_analysis_data"
    /\ ret # None
    /\ ret.confidence >= HIGH_CONFIDENCE

\* C11: when an accepted Alert of confidence >= 0.7 is recorded, the
\* thresholds are those obtained from the thresholds before the call by one
\* primary update per distinct kind of the Alert's indicator list (and the
\* correlated updates), however often a kind occurs in the list.
C11_OncePerDistinctKind ==
    RecordedHigh =>
        current_thresholds =
            AdaptThresholds(
                detection_history[Len(detection_history)].thresholds_at_time,
                SetToSortedSeq(Range(ret.indicators)))

----------------------------------------------------------------------------
(* Properties of MemorySystem sessions (specification SpecMemory) *)

\* record_detection(indicators, confidence, timestamp) as a function of the
\* manager it is called on
RecordOn(m, inp) ==
    [current_thresholds |->
         IF inp.confidence >= HIGH_CONFIDENCE
         THEN AdaptThresholds(m.current_thresholds, inp.indicators)
         ELSE m.current_thresholds,
     detection_history |->
         HistoryAfter(m.detection_history,
                      [timestamp |-> inp.timestamp, indicators |-> inp.indicators,
                       confidence |-> inp.confidence,
                       thresholds_at_time |-> m.current_thresholds]),
     successful_detections |->
         IF inp.confidence >= HIGH_CONFIDENCE
         THEN m.successful_detections + 1 ELSE m.successful_detections]

\* The manager after the calls inputs, in order, on the manager m
RECURSIVE ReplayManager(_, _)
ReplayManager(m, inputs) ==
    IF inputs = <<>> THEN m
    ELSE ReplayManager(RecordOn(m, Head(inputs)), Tail(inputs))

\* The session after the calls inputs, in order, on the session sess and the
\* manager m, for a session started at time start
RECURSIVE ReplaySession(_, _, _, _)
ReplaySession(sess, m, inputs, start) ==
    IF inputs = <<>> THEN sess
    ELSE LET inp == Head(inputs)
             m1 == RecordOn(m, inp)
             event == [timestamp |-> inp.timestamp,
                       session_time |-> inp.timestamp - start,
                       indicators |-> inp.indicators,
                       confidence |-> inp.confidence,
                       adaptive_thresholds_snapshot |-> m1.current_thresholds]
             sess1 == [sess EXCEPT
                         !.detection_events = Append(@, event),
                         !.confidence_scores = Append(@, inp.confidence),
                         !.deception_count =
                             IF inp.confidence >= HIGH_CONFIDENCE THEN @ + 1 ELSE @]
         IN  ReplaySession(AnalyzeBehavioralPatterns(sess1), m1, Tail(inputs), start)

\* C12: immediately after start_new_session the thresholds are the defaults,
\* successful_detections is 0, detection_history is empty and the new session
\* has no detection event and deception_count 0, whatever was recorded before;
\* and every later state of the manager and of the session is the one a newly
\* constructed manager and session reach on the calls made since the start.
C12_SessionsIndependent ==
    sessionsStarted > 0 =>
        /\ lastOp = "start_new_session" =>
              /\ current_thresholds = default_thresholds
              /\ successful_detections = 0
              /\ detection_history = <<>>
              /\ current_session.detection_events = <<>>
              /\ current_session.deception_count = 0
        /\ [current_thresholds |-> current_thresholds,
            detection_history |-> detection_history,
            successful_detections |-> successful_detections]
              = ReplayManager(FreshManager, sessionInputs)
        /\ current_session
              = ReplaySession(FreshSession(FreshManager), FreshManager,
                              sessionInputs, session_start_time)

\* A second session, started after detections of high confidence, has just
\* begun, or has recorded a detection of high confidence of its own
C12_Witness ==
    /\ sessionsStarted = 2
    /\ priorEvents >= 2
    /\ \/ lastOp = "start_new_session"
       \/ /\ current_session.deception_count >= 1
          /\ current_thresholds # default_thresholds

----------------------------------------------------------------------------
(* Properties of process_frame (specification SpecFrames) *)

\* The last process_frame call was a calibration frame
CalibrationCall ==
    /\ lastCall.n > 0
    /\ (~lastCall.calibrated \/ ~lastCall.before.baseline.calibrated)

\* The last process_frame call was not a calibration frame
DetectionCall ==
    /\ lastCall.n > 0
    /\ lastCall.calibrated
    /\ lastCall.before.baseline.calibrated

\* C13: after a process_frame call with calibrated=False, or made while
\* baseline['calibrated'] is False, no detection tell has been created, no
\* detection tell is live any more, and the returned map has exactly the key
\* avg_bpms.
C13_CalibrationFrameOnlyBpm ==
    CalibrationCall =>
        /\ lastCall.assigned \cap DetectionTells = {}
        /\ DOMAIN dd.tells \cap DetectionTells = {}
        /\ DOMAIN lastCall.ret = {"avg_bpms"}

\* A calibration frame of a stressed subject, on a call counter on which lips
\* are sampled, that found a detection tell live
C13_Witness ==
    /\ CalibrationCall
    /\ lastCall.inp = StressedFrame
    /\ lastCall.n % GAZE_LIPS_EVERY = 0
    /\ lastCall.before.baseline.calibrated
    /\ DOMAIN lastCall.before.tells \cap DetectionTells # {}

\* C15: every process_frame call returns a map that holds avg_bpms.
C15_AvgBpmsAlwaysReturned ==
    lastCall.n > 0 => "avg_bpms" \in DOMAIN lastCall.ret

\* C16: every live tell has ttl >= 0.  After a call that is not a calibration
\* frame, a tell that was live before the call with ttl 1 is gone, and one with
\* a greater ttl has its ttl less by exactly 1, unless the call has put a new
\* tell in its place; after a calibration frame the avg_bpms tell has the ttl
\* it had, unless the call has put a new tell in its place.
C16_TtlCountsDown ==
    /\ \A k \in DOMAIN dd.tells : dd.tells[k].ttl >= 0
    /\ DetectionCall =>
          \A k \in DOMAIN lastCall.before.tells \ lastCall.assigned :
              IF lastCall.before.tells[k].ttl <= 1
              THEN k \notin DOMAIN dd.tells
              ELSE /\ k \in DOMAIN dd.tells
                   /\ dd.tells[k].ttl = lastCall.before.tells[k].ttl - 1
    /\ CalibrationCall =>
          \A k \in (DOMAIN lastCall.before.tells \cap {"avg_bpms"}) \ lastCall.assigned :
              /\ k \in DOMAIN dd.tells
              /\ dd.tells[k].ttl = lastCall.before.tells[k].ttl

\* A call that is not a calibration frame in which a detection tell ran out
\* and the avg_bpms tell, not replaced, counted down
C16_Witness ==
    /\ DetectionCall
    /\ \E k \in DOMAIN lastCall.before.tells \cap DetectionTells :
          /\ lastCall.before.tells[k].ttl = 1
          /\ k \notin DOMAIN dd.tells
    /\ "avg_bpms" \in DOMAIN dd.tells
    /\ "avg_bpms" \notin lastCall.assigned

\* The kinds whose condition held in the last call while a tell of the kind
\* was live, that is, had not run out in the call
HeldWhileLive ==
    {k \in lastCall.held :
        /\ k \in DOMAIN lastCall.before.tells
        /\ lastCall.before.tells[k].ttl > 1}

\* C17: when the condition of a detection kind holds on a sampled frame while
\* a tell of the kind is live, the tell of the kind has ttl ttl_for_tells after
\* the call.
C17_LiveTellReplaced ==
    lastCall.n > 0 =>
        \A k \in HeldWhileLive : dd.tells[k].ttl = callerTtl

\* C17, amended: when the condition of a detection kind holds on a sampled
\* frame while a tell of the kind is live, a gaze or lips tell is replaced by
\* one with ttl ttl_for_tells, and a bpm_change, blinking or hand tell is kept,
\* its ttl less by 1.
C17_ReplacedOrKept ==
    lastCall.n > 0 =>
        \A k \in HeldWhileLive :
            IF k \in {"gaze", "lips"}
            THEN dd.tells[k].ttl = callerTtl
            ELSE dd.tells[k].ttl = lastCall.before.tells[k].ttl - 1

\* A call in which the lips condition and each of the bpm_change, blinking
\* and hand conditions held while a tell of the kind was live
C17_Witness ==
    /\ lastCall.n > 0
    /\ {"lips", "bpm_change", "blinking", "hand"} \subseteq HeldWhileLive

\* C18: a process_frame call made while baseline['bpm'] is 0 creates no
\* bpm_change tell and leaves none live.
C18_NoBpmChangeWithoutBaseline ==
    (lastCall.n > 0 /\ lastCall.before.baseline.bpm = 0) =>
        /\ "bpm_change" \notin lastCall.assigned
        /\ "bpm_change" \notin DOMAIN dd.tells

\* A call that is not a calibration frame, on a call counter on which the BPM
\* is sampled, with a BPM far from 0 and a baseline bpm of 0
C18_Witness ==
    /\ DetectionCall
    /\ lastCall.before.baseline.bpm = 0
    /\ lastCall.n % BPM_EVERY = 0
    /\ lastCall.inp.bpm > 0
    /\ dd.avg_bpms[MAX_FRAMES] = lastCall.inp.bpm

\* C20: process_frame starts a get_mood thread only when no earlier one is
\* still running.
C20_NoStartWhileRunning ==
    (lastCall.n > 0 /\ lastCall.started) => lastCall.running = 0

\* The period, in calls, on which the condition of a detection kind is tested
SamplingPeriod(kind) ==
    CASE kind = "bpm_change" -> BPM_EVERY
      [] kind = "blinking" -> BLINK_EVERY
      [] kind = "hand" -> HAND_EVERY
      [] OTHER -> GAZE_LIPS_EVERY

\* C25: after a process_frame call that is not a calibration frame and shows
\* no face, no tell has been created or refreshed, the rolling windows and the
\* calibration accumulators are as before, no get_mood thread has been
\* started, and every tell that was live has counted down by one, the tells
\* that reach zero being removed.
C25_FacelessFrame ==
    (DetectionCall /\ ~lastCall.inp.face) =>
        /\ lastCall.assigned = {}
        /\ ~lastCall.started
        /\ dd.blinks = lastCall.before.blinks
        /\ dd.hand_on_face = lastCall.before.hand_on_face
        /\ dd.gaze_values = lastCall.before.gaze_values
        /\ dd.hr_values = lastCall.before.hr_values
        /\ dd.avg_bpms = lastCall.before.avg_bpms
        /\ dd.calibration_data = lastCall.before.calibration_data
        /\ DOMAIN dd.tells = {k \in DOMAIN lastCall.before.tells :
                                 lastCall.before.tells[k].ttl > 1}
        /\ \A k \in DOMAIN dd.tells :
               dd.tells[k] = [lastCall.before.tells[k] EXCEPT !.ttl = @ - 1]

\* A faceless call that is not a calibration frame, on a call counter on which
\* gaze and lips are sampled, that found tells live and a get_mood
\* classification due
C25_Witness ==
    /\ DetectionCall
    /\ ~lastCall.inp.face
    /\ lastCall.n % GAZE_LIPS_EVERY = 0
    /\ lastCall.before.mood_frames_count + 1 >= MOOD_EVERY
    /\ ~lastCall.before.calculating_mood
    /\ \E k \in DOMAIN lastCall.before.tells \cap DetectionTells : k \in DOMAIN dd.tells
    /\ "avg_bpms" \in DOMAIN dd.tells

\* C28: while baseline['calibrated'] is True no process_frame call appends to
\* a calibration accumulator, whatever flag the caller passes.
C28_ReadyIsTerminal ==
    (lastCall.n > 0 /\ lastCall.before.baseline.calibrated) =>
        dd.calibration_data = lastCall.before.calibration_data

\* C29: a tell of a detection kind is created only on calls whose counter is
\* a multiple of the sampling period of the kind.
C29_Throttle ==
    lastCall.n > 0 =>
        \A k \in lastCall.assigned \cap DetectionTells :
            lastCall.n % SamplingPeriod(k) = 0

\* A call on a multiple of all the periods, made with a baseline, that created
\* a bpm_change tell and a lips tell and found no lips tell live
C29_Witness ==
    /\ lastCall.n > 0
    /\ lastCall.n % HAND_EVERY = 0
    /\ lastCall.n % BLINK_EVERY = 0
    /\ {"bpm_change", "lips"} \subseteq lastCall.assigned
    /\ lastCall.before.baseline.calibrated
    /\ "lips" \notin DOMAIN lastCall.before.tells

----------------------------------------------------------------------------
(* Properties of calculate_baseline (specification SpecBaseline) *)

\* The last call of calculate_baseline found fewer than 10 valid BPM readings
\* in the window
Insufficient ==
    /\ lastBaseline.n > 0
    /\ Len(ValidBpms(lastBaseline.before.avg_bpms)) < MIN_VALID_BPMS

\* The last call of process_frame was made after the last call of
\* calculate_baseline
FrameAfterBaseline ==
    /\ lastBaseline.n > 0
    /\ lastCall.n > lastBaseline.before.frame_counter

\* The last call of calculate_baseline took the value of calculate_bpm on the
\* last 60 heart-rate samples
Estimated ==
    /\ lastBaseline.before.hr_values >= MIN_HR_VALUES
    /\ lastBaseline.calculated # 0
    /\ MIN_BPM <= lastBaseline.calculated /\ lastBaseline.calculated <= MAX_BPM

\* C26 as stated: when calculate_baseline finds fewer than 10 valid BPM
\* readings, the baseline bpm is 0 after the call whatever the heart-rate
\* history holds, and no later call of process_frame creates a bpm_change
\* tell.
C26_InsufficientStaysZero ==
    Insufficient =>
        /\ dd.baseline.bpm = 0
        /\ FrameAfterBaseline => "bpm_change" \notin lastCall.assigned

\* C26 amended: when calculate_baseline finds fewer than 10 valid BPM readings,
\* the baseline bpm is the value calculate_bpm gives on the last 60 heart-rate
\* samples if 60 or more are held and the value is within 50..150, and is the
\* value it had before the call otherwise; while it is 0, no later call of
\* process_frame creates a bpm_change tell.
C26_InsufficientKeepsOrEstimates ==
    Insufficient =>
        /\ dd.baseline.bpm = IF Estimated THEN lastBaseline.calculated * 100
                             ELSE lastBaseline.before.baseline.bpm
        /\ (FrameAfterBaseline /\ dd.baseline.bpm = 0) =>
               "bpm_change" \notin lastCall.assigned

\* calculate_baseline found 4 valid readings and 60 heart-rate samples or more,
\* calculate_bpm gave nothing and the baseline bpm stayed 0; a later call on a
\* multiple of 30, outside calibration, read a BPM and created no tell
C26_Witness ==
    /\ Insufficient
    /\ ValidBpms(lastBaseline.before.avg_bpms) # <<>>
    /\ lastBaseline.before.hr_values >= MIN_HR_VALUES
    /\ lastBaseline.calculated = 0
    /\ dd.baseline.bpm = 0
    /\ FrameAfterBaseline
    /\ lastCall.n % BPM_EVERY = 0
    /\ ~lastCall.is_calibrating
    /\ lastCall.inp.bpm # 0
    /\ "bpm_change" \notin lastCall.assigned

\* C27: after the calculate_baseline call that ends a calibration in which
\* 10 or more in-range BPM samples were appended to calibration_data, the
\* baseline bpm is the mean of those samples.
C27_BaselineIsAccumulatorMean ==
    (/\ lastBaseline.n = 1
     /\ ~lastBaseline.before.baseline.calibrated
     /\ Len(lastBaseline.before.calibration_data.bpm_values) >= MIN_VALID_BPMS) =>
        dd.baseline.bpm = MeanBpm(lastBaseline.before.calibration_data.bpm_values)

----------------------------------------------------------------------------
(* Properties of the driver loops (specifications SpecMain and SpecWeb) *)

\* C14: once the driver's calibration time has elapsed and the driver passes
\* calibrated=True, baseline['calibrated'] is True and process_frame does not
\* treat the frame as a calibration frame.
C14_CalibrationCompletes ==
    (/\ lastCall.n > 0
     /\ lastCall.calibrated
     /\ lastCall.elapsed >= MAIN_CALIBRATION_TIME) =>
        /\ dd.baseline.calibrated
        /\ ~lastCall.is_calibrating

\* C19: once baseline['calibrated'] is True no field of the baseline changes
\* in a step that is not a reset by handle_start_camera.
C19_BaselineFrozen ==
    [][(dd.baseline.calibrated /\ ~StartCamera) => dd'.baseline = dd.baseline]_vars

----------------------------------------------------------------------------
(* Properties of ReviewSession (specification SpecReview) *)

----------------------------------------------------------------------------
(* Properties of the correlated adjustments (specification SpecThresholds) *)

\* C31: after a detection of confidence 0.7 or more has been recorded whose
\* indicators include bpm_change and not blinking, the blink_rate threshold
\* is lower than before or at its floor of 0.8 times the default, never under
\* the floor, and its reduction is smaller than the reduction of the
\* bpm_change threshold in the same call, in absolute terms or as a share of
\* the value before; the same for hand, gaze and the gaze_stability and
\* hand_face_frequency thresholds.
C31_CorrelatedSmaller ==
    (/\ lastOp = "record_detection"
     /\ detection_history # <<>>
     /\ detection_history[Len(detection_history)].confidence >= HIGH_CONFIDENCE) =>
        LET event == detection_history[Len(detection_history)]
            old == event.thresholds_at_time
            Cut(key) == old[key] - current_thresholds[key]
            Lowered(key) ==
                /\ current_thresholds[key] >= MinValue(key)
                /\ current_thresholds[key] < old[key]
                       \/ current_thresholds[key] = MinValue(key)
            Smaller(correlated, primary) ==
                \/ Cut(correlated) < Cut(primary)
                \/ Cut(correlated) * (old[primary] \div 10000)
                       < Cut(primary) * (old[correlated] \div 10000)
        IN  /\ ("bpm_change" \in Range(event.indicators)
                    /\ "blinking" \notin Range(event.indicators)) =>
                   /\ Lowered("blink_rate")
                   /\ Smaller("blink_rate", "bpm_change")
            /\ ("hand" \in Range(event.indicators)
                    /\ "gaze" \notin Range(event.indicators)) =>
                   /\ Lowered("gaze_stability")
                   /\ Smaller("gaze_stability", "hand_face_frequency")

----------------------------------------------------------------------------
(* Properties of the threads of web_app (specification SpecThreads) *)

\* The threads that are inside process_frame
InProcessFrame == {i \in 1..Len(loops) : loops[i].pc = "process_frame"}

\* C32: at no time are two threads inside process_frame, and calculate_baseline
\* is never called while a thread is inside process_frame.
C32_SingleThreaded ==
    /\ [](Cardinality(InProcessFrame) <= 1)
    /\ [][TimerDue => InProcessFrame = {}]_vars

----------------------------------------------------------------------------
(* Properties of the Alerts process returns (specification Spec) *)

----------------------------------------------------------------------------
(* process_frame over whole sampling periods: a driver that has calibrated *)
(* and goes on with a subject whose deviation persists                     *)

\* The call counter up to which the driver goes on
MaxCounter == 185

\* The states the driver starts from: a baseline calculated from 89, 100 and
\* 130 frames of a calm subject, the first sampled calls being 90, 120 and 150
PeriodScenarios ==
    { Calibrated(89, DEFAULT_TTL),
      Calibrated(100, DEFAULT_TTL),
      Calibrated(130, DEFAULT_TTL) }

\* What the camera shows on call c: the subject under stress, who on the
\* 10th call after a sampled one may be out of the picture
PeriodInputs(c) ==
    IF c % BPM_EVERY = 10 THEN {StressedFrame, NoFace} ELSE {StressedFrame}

\* One iteration of the driver loop: process_frame with calibrated = True and
\* the default ttl_for_tells; a get_mood thread the call starts classifies a
\* neutral face and ends before the next frame
PeriodFrame ==
    \E inp \in PeriodInputs(dd.frame_counter + 1) :
        \E r \in {process_frame(dd, inp, TRUE, callerTtl, current_thresholds, now)} :
            /\ dd.frame_counter < MaxCounter
            /\ dd' = IF r.started
                     THEN get_mood(r.st, [detected |-> "neutral", score |-> 80])
                     ELSE r.st
            /\ frames' = frames + 1
            /\ lastCall' = [n |-> r.st.frame_counter, inp |-> inp,
                            calibrated |-> TRUE, before |-> dd,
                            running |-> Len(emothreads), ret |-> r.ret,
                            started |-> r.started,
                            is_calibrating |-> r.is_calibrating,
                            assigned |-> r.assigned, held |-> r.held]
            /\ UNCHANGED <<emothreads, callerTtl, driverVars>>
            /\ UNCHANGED <<alertVars, thrVars, memVars, reviewVars>>

InitPeriod ==
    /\ InitManagers
    /\ plan = None
    /\ \E w \in PeriodScenarios :
           /\ dd = Settled(w).st
           /\ emothreads = <<>>
    /\ callerTtl = DEFAULT_TTL
    /\ frames = 0
    /\ lastCall = [n |-> 0]
    /\ calibrated_flag = FALSE
    /\ camera_active = FALSE
    /\ driver_start_time = 0
    /\ ticks = 0
    /\ timers = <<>>
    /\ lastBaseline = [n |-> 0]
    /\ loops = <<>>

NextPeriod == PeriodFrame

SpecPeriod == InitPeriod /\ [][NextPeriod]_vars

----------------------------------------------------------------------------
(* Properties of the busy flag of get_mood (specification SpecMood)        *)

\* C34: whenever no get_mood thread is left, calculating_mood is False in the
\* end: no classification task that has finished leaves the flag set for good
C34_NoLockout ==
    (emothreads = <<>>) ~> ~dd.calculating_mood

----------------------------------------------------------------------------
(* Properties of the session records (specification SpecMemory)            *)

\* C35: in a session, confidence_scores is as long as detection_events,
\* deception_count is the number of recorded events of confidence >= 0.7 and
\* equals successful_detections of the threshold manager; a
\* record_detection_event call appends one event and leaves the earlier
\* events as they were
C35_SessionBookkeeping ==
    /\ [](current_session # None =>
             LET events == current_session.detection_events
             IN  /\ Len(current_session.confidence_scores) = Len(events)
                 /\ current_session.deception_count =
                        Cardinality({i \in 1..Len(events) :
                                        events[i].confidence >= HIGH_CONFIDENCE})
                 /\ current_session.deception_count = successful_detections)
    /\ [][(current_session # None /\ lastOp' = "record_detection_event") =>
             LET old == current_session.detection_events
                 new == current_session'.detection_events
             IN  /\ Len(new) = Len(old) + 1
                 /\ SubSeq(new, 1, Len(old)) = old]_vars

\* A session with three events, of confidence below and above 0.7
C35_Witness ==
    /\ current_session # None
    /\ lastOp = "record_detection_event"
    /\ Len(current_session.detection_events) = 3
    /\ current_session.deception_count \in {1, 2}

\* C36: a record_detection_event call that fails for want of a session
\* leaves current_thresholds, successful_detections and detection_history of
\* the threshold manager as they were
C36_FailedCallChangesNothing ==
    [][lastOp' = "record_detection_event_raised" =>
          UNCHANGED <<current_thresholds, successful_detections,
                      detection_history>>]_vars

----------------------------------------------------------------------------
(* Properties of the sampling periods (specification SpecPeriod)           *)

\* The kinds created only when no tell of the kind is live
GuardedKinds == {"bpm_change", "blinking", "hand"}

====
